---- MODULE Spec2Model ----
(***************************************************************************)
(* Verification model of gherlein/netgearcli.                              *)
(*                                                                         *)
(* Part 1: the poe-management command (cmd/poe-management/main.go and its  *)
(* retrying variant): main, ensureAuthenticated, validateToken,            *)
(* performLogin, handleAuthError, removeToken.  One run of the process is  *)
(* one behaviour; every request sent to the switch is one step and is      *)
(* appended to the log `net`.                                              *)
(*                                                                         *)
(* Part 2: the file token manager (FileTokenManager): SetToken, GetToken,  *)
(* RemoveToken over a small file system, with the JSON encoding of the     *)
(* token file computed byte by byte.                                       *)
(*                                                                         *)
(* Part 3: two runs of poe-management that share the host's token file.    *)
(*                                                                         *)
(* Part 4: the pure functions: getTokenPath, getPasswordFromEnv,           *)
(* parsePorts.                                                             *)
(*                                                                         *)
(* Part 5: the Client of the netgear package: GetModel, Login, LoginAuto.  *)
(*                                                                         *)
(* Part 6: validateToken of poe-management step by step: the settings it   *)
(* saves and restores, the pipe that replaces os.Stdout, the goroutine     *)
(* that drains it and the channel done.                                    *)
(*                                                                         *)
(* Part 7: the mains of poe-status-simple and poe-status.                  *)
(***************************************************************************)
EXTENDS Integers, Sequences, FiniteSets, TLC

VARIABLES
    variant,        \* "single": performLogin of main.go; "retry": the variant with backoff
    statFails,      \* os.Stat of the token path fails though the file may exist (no permission)
    flagPassword,   \* value of --password / -p
    envPassword,    \* what getPasswordFromEnv returns for the host
    envConsulted,   \* main has called getPasswordFromEnv
    command,        \* args[1]
    portArgs,       \* args[2:]
    tokenFile,      \* the host's token file: 0 when absent, else the id of the token in it
    tokenAtStart,   \* the token file the process finds when it starts (0: os.Stat finds none)
    globalPassword,
    loginAttempted,
    pc,             \* position of the process
    caller,         \* who called performLogin: "ensure" or "handle"
    attempt,        \* loop variable of performLogin
    loginRet,       \* return value of performLogin (NotYet until it returns)
    net,            \* requests sent to the switch, in order, with their outcome
    sleeps,         \* arguments of time.Sleep, in order
    haeOps,         \* calls of retryFunc made by handleAuthError
    haeLogins,      \* calls of performLogin made by handleAuthError
    haeRet,         \* return value of handleAuthError (NotYet until it returns)
    tokenAtHae,     \* tokenFile when handleAuthError was entered
    exit,           \* how the process ended: "running", "ok", "fatal", "usage"
    clientTokens,   \* token manager: the tokens its client has to store
    fs,             \* token manager: content of each token file of tokenDir
    tmLast,         \* token manager: the last call, its arguments and its result
    tmStored,       \* token manager: for each file, what the last call that changed it did
    tmWriter,       \* token manager: the SetToken in progress in one goroutine
    tmRead,         \* token manager: the last GetToken of another goroutine
    duoFile,        \* two runs of poe-management: the host's token file (0 absent, else token id)
    duoRun,         \* two runs of poe-management: the state of each process
    fnCall,         \* the last call of a pure function: its arguments and its result
    client,         \* a Client of the netgear package, and what its calls have done
    globalOpts,     \* validateToken: the GlobalOptions shared by all commands
    osStdout,       \* validateToken: os.Stdout ("terminal", "pipe", or "nil" when os.Pipe failed)
    vtSaved,        \* validateToken: its locals savedVerbose, savedFormat, oldStdout
    vtEntry,        \* validateToken: the settings, token file and loginAttempted when it was called
    pipe,           \* validateToken: the pipe r, w: created or not, chunks buffered, w closed
    cmd,            \* validateToken: the status command: chunks of output in all and left, its error
    vtPc,           \* validateToken: position of the calling goroutine
    drain,          \* validateToken: position of the draining goroutine, how io.Copy ended
    done,           \* validateToken: number of values received from the channel done
    vtRet,          \* validateToken: its result (NotYet until it returns)
    psProgram,      \* poe-status: which main runs
    psPassword,     \* poe-status: the password getPasswordFromEnv found
    psPrompt,       \* poe-status: readPassword fails or returns a password
    psPc,           \* poe-status: position in main
    psTrace,        \* poe-status: LoginCommand and PoeStatusCommand runs and lines printed, in order
    psExit          \* poe-status: how the process ended

pmVars == << variant, statFails, flagPassword, envPassword, envConsulted, command, portArgs, tokenFile,
             tokenAtStart, globalPassword, loginAttempted, pc, caller, attempt,
             loginRet, net, sleeps, haeOps, haeLogins, haeRet, tokenAtHae, exit >>

tmVars == << clientTokens, fs, tmLast, tmStored, tmWriter, tmRead >>

duoVars == << duoFile, duoRun >>

fnVars == << fnCall >>

clVars == << client >>

vtVars == << globalOpts, osStdout, vtSaved, vtEntry, pipe, cmd, vtPc, drain, done, vtRet >>

psVars == << psProgram, psPassword, psPrompt, psPc, psTrace, psExit >>

vars == << pmVars, tmVars, duoVars, fnVars, clVars, vtVars, psVars >>

----------------------------------------------------------------------------
(* Values *)

NoErr == ""             \* a nil error
NotYet == "<not returned>"

\* Errors a switch command (PoeStatusCommand, PoeSetConfigCommand, ...) can return.
OpErrors == { "204 no content", "redirect to login.cgi", "no session token",
              "connection refused" }

\* Errors LoginCommand.Run can return: the switch declined the credential, or
\* the network exchange failed.
ErrRejected == "credential rejected"
ErrNetwork == "dial tcp: i/o timeout"
LoginErrors == { ErrRejected, ErrNetwork }

Commands == { "status", "settings", "enable", "disable", "cycle", "bogus" }
PortCommands == { "enable", "disable", "cycle" }

\* strings.Contains
Contains(s, sub) ==
    \E i \in 1..(Len(s) - Len(sub) + 1) : SubSeq(s, i, i + Len(sub) - 1) = sub

\* Mutant: only a redirect to the login page counts as a session expiry
IsAuthError_LoginOnly(errStr) ==
    Contains(errStr, "login")

\* The test of handleAuthError and validateToken on err.Error()
IsAuthError(errStr) ==
    \/ Contains(errStr, "no content")
    \/ Contains(errStr, "login")
    \/ Contains(errStr, "no session")

\* retryDelays of performLogin, in milliseconds
retryDelays ==
    IF variant = "retry" THEN << 200, 500, 1000 >> ELSE << >>

\* Mutant: the initial attempt is not counted
maxAttempts_NoInitial == Len(retryDelays)

maxAttempts == Len(retryDelays) + 1

\* The error performLogin returns when its last attempt failed with e
LoginFailure(e) ==
    IF variant = "retry"
    THEN "login failed after 4 attempts: " \o e
    ELSE "login failed: " \o e

\* The log after one more request: who sent it, the token attached to it,
\* the password submitted (by a login) and the error it returned
Sent(by, e) ==
    Append(net, [by |-> by, tok |-> tokenFile,
                 pw |-> IF by = "performLogin" THEN globalPassword ELSE "",
                 err |-> e])

\* A token file that holds no token: empty, or cut short
NotAToken == -1

\* Mutant: a file that exists is always found
Stat_FindsEveryFile == IF tokenFile = 0 THEN "no such file or directory" ELSE NoErr

\* The error of os.Stat(tokenPath)
Stat ==
    IF tokenFile = 0 THEN "no such file or directory"
    ELSE IF statFails THEN "permission denied"
    ELSE NoErr

\* Mutant: the file is opened and must hold a token
hasValidToken_HoldsToken == Stat = NoErr /\ tokenFile > 0

\* hasValidToken: os.Stat of the token path returns no error
hasValidToken == Stat = NoErr

\* The id of the token a successful login caches: one never used before
FreshToken == Len(net) + 2

\* The state of a poe-management process when main starts
PmStart ==
    /\ envConsulted = FALSE
    /\ globalPassword = ""
    /\ loginAttempted = FALSE
    /\ pc = "main"
    /\ caller = "none"
    /\ attempt = 0
    /\ loginRet = NotYet
    /\ net = << >>
    /\ sleeps = << >>
    /\ haeOps = 0
    /\ haeLogins = 0
    /\ haeRet = NotYet
    /\ tokenAtHae = 0
    /\ exit = "running"

\* No process of the two-run scenario, no call of a pure function
DuoIdle ==
    /\ duoFile = 0
    /\ duoRun = << >>

NoFn == [fn |-> "none"]

FnIdle == fnCall = NoFn

\* NewClient(host).  Beside the fields of the Client: the number of calls made
\* on it and of calls of DetectNetgearModel, what the last GetModel returned,
\* and the first detected model a GetModel returned with the number of
\* detections made by then
NewClient(host) ==
    [host |-> host, model |-> "Unknown", authenticated |-> FALSE,
     calls |-> 0, detects |-> 0, ret |-> NotYet,
     returned |-> NotYet, detectsThen |-> 0]

\* No Client in use
ClIdle == client = NewClient("")

\* go_netgear.JsonFormat and go_netgear.MarkdownFormat
JsonFormat == "json"
MarkdownFormat == "markdown"

\* The GlobalOptions main builds
NewGlobalOptions(globalDebug) ==
    [Verbose |-> globalDebug, OutputFormat |-> JsonFormat]

\* What validateToken works on before it is called, the goroutine not started;
\* at is "idle" where validateToken is not modelled step by step
VtStart(at) ==
    /\ osStdout = "terminal"
    /\ vtSaved = [savedVerbose |-> FALSE, savedFormat |-> JsonFormat,
                  oldStdout |-> "terminal"]
    /\ vtEntry = [Verbose |-> FALSE, OutputFormat |-> JsonFormat, Stdout |-> "terminal",
                  tokenFile |-> 0, loginAttempted |-> FALSE]
    /\ pipe = [ok |-> FALSE, buf |-> 0, wClosed |-> FALSE]
    /\ cmd = [out |-> 0, left |-> 0, err |-> NotYet]
    /\ vtPc = at
    /\ drain = [pc |-> "none", result |-> NotYet]
    /\ done = 0
    /\ vtRet = NotYet

VtIdle == globalOpts = NewGlobalOptions(FALSE) /\ VtStart("idle")

\* No poe-status process
PsIdle ==
    /\ psProgram = "none"
    /\ psPassword = ""
    /\ psPrompt = ""
    /\ psPc = "idle"
    /\ psTrace = << >>
    /\ psExit = "running"

----------------------------------------------------------------------------
(* Part 2: FileTokenManager *)

\* Longest token passed to SetToken
MaxTokLen == 2

\* Bytes a token is made of: '"', which the JSON text escapes, and 0xC3 0xA9,
\* which is the UTF-8 encoding of U+00E9 when in this order and invalid UTF-8
\* otherwise (plain characters are those of PlainToken)
TokenBytes == { 34, 195, 169 }

RECURSIVE SeqsUpTo(_, _)
SeqsUpTo(S, n) ==
    IF n = 0
    THEN { << >> }
    ELSE LET shorter == SeqsUpTo(S, n - 1) IN
         shorter \cup { Append(s, b) : s \in { x \in shorter : Len(x) = n - 1 }, b \in S }

Tokens == SeqsUpTo(TokenBytes, MaxTokLen)

\* A token every client has: "t1"
PlainToken == << 116, 49 >>

\* Hosts passed to the token manager, as sequences of characters
Hosts == { << "s", "1" >>, << "s", "2" >>, << "x", "/", "s", "1" >> }

\* ASCII codes used by the JSON text
Ascii == [ quote |-> 34, backslash |-> 92, slash |-> 47, colon |-> 58,
           lbrace |-> 123, rbrace |-> 125, u |-> 117 ]

\* "0123456789abcdef"
HexDigits == << 48, 49, 50, 51, 52, 53, 54, 55, 56, 57, 97, 98, 99, 100, 101, 102 >>

\* Value of a hexadecimal digit, -1 when the byte is none
HexVal(b) ==
    IF b \in 48..57 THEN b - 48
    ELSE IF b \in 97..102 THEN b - 87
    ELSE IF b \in 65..70 THEN b - 55
    ELSE -1

\* utf8.DecodeRune: the length of the encoding that starts s, 0 when s starts
\* with a byte that begins no valid encoding
RuneLen(s) ==
    LET n == Len(s)
        Cont(i) == i <= n /\ s[i] \in 128..191
        b == s[1]
    IN  IF b < 128 THEN 1
        ELSE IF b \in 194..223 /\ Cont(2) THEN 2
        ELSE IF /\ b \in 224..239
                /\ Cont(2) /\ Cont(3)
                /\ b = 224 => s[2] >= 160
                /\ b = 237 => s[2] <= 159
             THEN 3
        ELSE IF /\ b \in 240..244
                /\ Cont(2) /\ Cont(3) /\ Cont(4)
                /\ b = 240 => s[2] >= 144
                /\ b = 244 => s[2] <= 143
             THEN 4
        ELSE 0

\* utf8.ValidString
RECURSIVE ValidUTF8(_)
ValidUTF8(s) ==
    IF s = << >> THEN TRUE
    ELSE LET n == RuneLen(s) IN
         n # 0 /\ ValidUTF8(SubSeq(s, n + 1, Len(s)))

\* utf8.AppendRune
EncodeRune(r) ==
    IF r < 128 THEN << r >>
    ELSE IF r < 2048 THEN << 192 + (r \div 64), 128 + (r % 64) >>
    ELSE IF r < 65536
         THEN << 224 + (r \div 4096), 128 + ((r \div 64) % 64), 128 + (r % 64) >>
         ELSE << 240 + (r \div 262144), 128 + ((r \div 4096) % 64),
                 128 + ((r \div 64) % 64), 128 + (r % 64) >>

\* \u00XX for byte b
UEscape(b) ==
    << Ascii.backslash, Ascii.u, 48, 48, HexDigits[(b \div 16) + 1], HexDigits[(b % 16) + 1] >>

\* The replacement character U+FFFD: as the escape json.Marshal writes for an
\* invalid byte, and as the bytes json.Unmarshal produces
ReplacementEscape == << Ascii.backslash, Ascii.u, 102, 102, 102, 100 >>
ReplacementBytes == << 239, 191, 189 >>

\* Mutant: the quote is written as it is
EscapeByte_QuoteRaw(b) ==
    IF b = Ascii.backslash THEN << Ascii.backslash, b >>
    ELSE IF b = 10 THEN << Ascii.backslash, 110 >>
    ELSE IF b = 13 THEN << Ascii.backslash, 114 >>
    ELSE IF b = 9 THEN << Ascii.backslash, 116 >>
    ELSE IF b < 32 \/ b \in { 60, 62, 38 } THEN UEscape(b)
    ELSE << b >>

\* json.Marshal of one ASCII byte of a string (HTML escaping is on)
EscapeByte(b) ==
    IF b = Ascii.quote \/ b = Ascii.backslash THEN << Ascii.backslash, b >>
    ELSE IF b = 10 THEN << Ascii.backslash, 110 >>
    ELSE IF b = 13 THEN << Ascii.backslash, 114 >>
    ELSE IF b = 9 THEN << Ascii.backslash, 116 >>
    ELSE IF b < 32 \/ b \in { 60, 62, 38 } THEN UEscape(b)
    ELSE << b >>

\* json.Marshal of the characters of a string: invalid UTF-8 is replaced by
\* the escape of U+FFFD, U+2028 and U+2029 are escaped
RECURSIVE EncodeChars(_)
EncodeChars(s) ==
    IF s = << >> THEN << >>
    ELSE IF s[1] < 128 THEN EscapeByte(s[1]) \o EncodeChars(Tail(s))
    ELSE LET n == RuneLen(s) IN
         IF n = 0 THEN ReplacementEscape \o EncodeChars(Tail(s))
         ELSE IF n = 3 /\ s[1] = 226 /\ s[2] = 128 /\ s[3] \in { 168, 169 }
              THEN << Ascii.backslash, Ascii.u, 50, 48, 50, HexDigits[s[3] - 159] >>
                       \o EncodeChars(SubSeq(s, 4, Len(s)))
              ELSE SubSeq(s, 1, n) \o EncodeChars(SubSeq(s, n + 1, Len(s)))

EncodeString(s) == << Ascii.quote >> \o EncodeChars(s) \o << Ascii.quote >>

\* "token" as bytes
TokenKey == << 116, 111, 107, 101, 110 >>

\* json.Marshal(map[string]string{"token": token})
Marshal(token) ==
    << Ascii.lbrace >> \o EncodeString(TokenKey) \o << Ascii.colon >>
        \o EncodeString(token) \o << Ascii.rbrace >>

Failed(i) == [ok |-> FALSE, val |-> << >>, next |-> i]

\* The character a one-letter escape stands for, -1 when the letter is none
SimpleEscape(c) ==
    IF c \in { Ascii.quote, Ascii.backslash, Ascii.slash } THEN c
    ELSE IF c = 98 THEN 8
    ELSE IF c = 102 THEN 12
    ELSE IF c = 110 THEN 10
    ELSE IF c = 114 THEN 13
    ELSE IF c = 116 THEN 9
    ELSE -1

\* The code unit of \uXXXX whose X start at d[i], -1 when they are not 4 hex digits
Hex4(d, i) ==
    IF i + 3 > Len(d) \/ \E k \in 0..3 : HexVal(d[i + k]) = -1
    THEN -1
    ELSE 4096 * HexVal(d[i]) + 256 * HexVal(d[i + 1]) + 16 * HexVal(d[i + 2]) + HexVal(d[i + 3])

\* json.Unmarshal of the characters of a string literal, from d[i] (after the
\* opening quote) to the closing quote
RECURSIVE DecodeChars(_, _)
DecodeChars(d, i) ==
    LET Then(bytes, j) ==
            LET rest == DecodeChars(d, j) IN
            IF rest.ok
            THEN [ok |-> TRUE, val |-> bytes \o rest.val, next |-> rest.next]
            ELSE rest
    IN  IF i > Len(d) THEN Failed(i)
        ELSE IF d[i] = Ascii.quote THEN [ok |-> TRUE, val |-> << >>, next |-> i + 1]
        ELSE IF d[i] < 32 THEN Failed(i)
        ELSE IF d[i] = Ascii.backslash
             THEN IF i + 1 > Len(d) THEN Failed(i)
                  ELSE IF d[i + 1] = Ascii.u
                       THEN LET r == Hex4(d, i + 2) IN
                            IF r = -1 THEN Failed(i)
                            ELSE IF r \in 55296..57343
                                 THEN LET r2 == IF /\ r <= 56319
                                                   /\ i + 7 <= Len(d)
                                                   /\ d[i + 6] = Ascii.backslash
                                                   /\ d[i + 7] = Ascii.u
                                                THEN Hex4(d, i + 8)
                                                ELSE -1
                                      IN  IF r2 \in 56320..57343
                                          THEN Then(EncodeRune(65536 + (r - 55296) * 1024
                                                                    + (r2 - 56320)), i + 12)
                                          ELSE Then(ReplacementBytes, i + 6)
                                 ELSE Then(EncodeRune(r), i + 6)
                       ELSE IF SimpleEscape(d[i + 1]) = -1 THEN Failed(i)
                            ELSE Then(<< SimpleEscape(d[i + 1]) >>, i + 2)
        ELSE IF d[i] < 128 THEN Then(<< d[i] >>, i + 1)
        ELSE LET n == RuneLen(SubSeq(d, i, Len(d))) IN
             IF n = 0 THEN Then(ReplacementBytes, i + 1)
             ELSE Then(SubSeq(d, i, i + n - 1), i + n)

DecodeString(d, i) ==
    IF i <= Len(d) /\ d[i] = Ascii.quote THEN DecodeChars(d, i + 1) ELSE Failed(i)

\* json.Unmarshal(data, &token) followed by token["token"], for the texts the
\* token manager writes and their truncations: an object of at most one
\* member, without white space.  ok is FALSE when Unmarshal returns an error.
Unmarshal(data) ==
    LET n == Len(data)
        none == [ok |-> FALSE, token |-> << >>]
    IN  IF n < 2 \/ data[1] # Ascii.lbrace THEN none
        ELSE IF n = 2 /\ data[2] = Ascii.rbrace THEN [ok |-> TRUE, token |-> << >>]
        ELSE LET key == DecodeString(data, 2) IN
             IF ~key.ok \/ key.next > n \/ data[key.next] # Ascii.colon THEN none
             ELSE LET value == DecodeString(data, key.next + 1) IN
                  IF ~value.ok \/ value.next # n \/ data[n] # Ascii.rbrace THEN none
                  ELSE [ok |-> TRUE,
                        token |-> IF key.val = TokenKey THEN value.val ELSE << >>]

\* strings.TrimRight(path, "/") as filepath.Base does it
RECURSIVE StripSlashes(_)
StripSlashes(path) ==
    IF path # << >> /\ path[Len(path)] = "/"
    THEN StripSlashes(SubSeq(path, 1, Len(path) - 1))
    ELSE path

\* filepath.Base
Base(path) ==
    IF path = << >> THEN << "." >>
    ELSE LET p == StripSlashes(path)
             cut == { i \in 1..Len(p) : p[i] = "/" }
             last == IF cut = { } THEN 0 ELSE CHOOSE i \in cut : \A j \in cut : j <= i
             name == SubSeq(p, last + 1, Len(p))
         IN  IF name = << >> THEN << "/" >> ELSE name

\* getTokenFile: the name of the host's file in tokenDir
getTokenFile(host) ==
    << "t", "o", "k", "e", "n", "_" >> \o Base(host) \o << ".", "j", "s", "o", "n" >>

FileNames == { getTokenFile(h) : h \in Hosts }

\* The content of a file that does not exist
NoFile == << -1 >>

\* No operation of the token manager yet
NoCall == [op |-> "none", host |-> << >>, tok |-> << >>, ok |-> TRUE,
           afterSet |-> FALSE, setHost |-> << >>, setTok |-> << >>]

Call(op, host, tok, ok) ==
    [NoCall EXCEPT !.op = op, !.host = host, !.tok = tok, !.ok = ok]

\* No SetToken in progress in the writing goroutine (`had` and `old`: the
\* entry GetToken could read when the SetToken in progress began)
NoWrite == [pc |-> "idle", host |-> << >>, tok |-> << >>, had |-> FALSE, old |-> << >>]

\* No GetToken of the reading goroutine yet
NoRead == [host |-> << >>, ok |-> TRUE, tok |-> << >>, during |-> FALSE,
           old |-> << >>, new |-> << >>]

\* What the calls so far have done to a file: nothing ("none"), or the last
\* call that changed it was a SetToken that wrote `tok` for host `by` ("set",
\* replacing another token when `replaced`), a SetToken that failed after
\* truncating it ("broken"), or a RemoveToken of host `by` ("removed", of an
\* existing file when `replaced`)
NoEntry == [state |-> "none", by |-> << >>, tok |-> << >>, replaced |-> FALSE]

Written(host, token, was) ==
    [state |-> "set", by |-> host, tok |-> token,
     replaced |-> (was.state = "set" /\ was.tok # token)]

Removed(host, was) ==
    [state |-> "removed", by |-> host, tok |-> << >>, replaced |-> (was # NoFile)]

\* Mutant: the file is opened for appending, not truncated
SetToken_Append(host, token) ==
    LET tokenFile_ == getTokenFile(host)
        data == Marshal(token)
        was == IF fs[tokenFile_] = NoFile THEN << >> ELSE fs[tokenFile_]
    IN  /\ \/ /\ fs' = [fs EXCEPT ![tokenFile_] = was \o data]
              /\ tmLast' = Call("Set", host, token, TRUE)
              /\ tmStored' = [tmStored EXCEPT
                                ![tokenFile_] = Written(host, token, tmStored[tokenFile_])]
           \/ /\ fs' = fs
              /\ tmLast' = Call("Set", host, << >>, FALSE)
              /\ tmStored' = tmStored
           \/ /\ \E k \in { 0, Len(data) \div 2 } :
                    fs' = [fs EXCEPT ![tokenFile_] = SubSeq(data, 1, k)]
              /\ tmLast' = Call("Set", host, << >>, FALSE)
              /\ tmStored' = [tmStored EXCEPT
                                ![tokenFile_] = [NoEntry EXCEPT !.state = "broken"]]
        /\ UNCHANGED << pmVars, duoVars, fnVars, clVars, vtVars, psVars, clientTokens, tmWriter, tmRead >>

\* SetToken(host, token).  MkdirAll or the opening of the file may fail and
\* leave the file as it was; os.WriteFile truncates the file when it opens
\* it, so a write that fails leaves the beginning of the text (here none of
\* it or half of it).
SetToken(host, token) ==
    LET tokenFile_ == getTokenFile(host)
        data == Marshal(token)
    IN  /\ \/ /\ fs' = [fs EXCEPT ![tokenFile_] = data]
              /\ tmLast' = Call("Set", host, token, TRUE)
              /\ tmStored' = [tmStored EXCEPT
                                ![tokenFile_] = Written(host, token, tmStored[tokenFile_])]
           \/ /\ fs' = fs
              /\ tmLast' = Call("Set", host, << >>, FALSE)
              /\ tmStored' = tmStored
           \/ /\ \E k \in { 0, Len(data) \div 2 } :
                    fs' = [fs EXCEPT ![tokenFile_] = SubSeq(data, 1, k)]
              /\ tmLast' = Call("Set", host, << >>, FALSE)
              /\ tmStored' = [tmStored EXCEPT
                                ![tokenFile_] = [NoEntry EXCEPT !.state = "broken"]]
        /\ UNCHANGED << pmVars, duoVars, fnVars, clVars, vtVars, psVars, clientTokens, tmWriter, tmRead >>

\* GetToken(host): os.ReadFile, json.Unmarshal, token["token"]
GetToken(host) ==
    LET data == fs[getTokenFile(host)]
        doc == IF data = NoFile THEN [ok |-> FALSE, token |-> << >>] ELSE Unmarshal(data)
    IN  /\ tmLast' = [Call("Get", host, IF doc.ok THEN doc.token ELSE << >>, doc.ok)
                         EXCEPT !.afterSet = (tmLast.op = "Set" /\ tmLast.ok),
                                !.setHost = tmLast.host,
                                !.setTok = tmLast.tok]
        /\ fs' = fs
        /\ UNCHANGED << pmVars, duoVars, fnVars, clVars, vtVars, psVars, clientTokens, tmStored, tmWriter, tmRead >>

\* Mutant: the file of a host that has logged out is kept
RemoveToken_Keep(host) ==
    LET tokenFile_ == getTokenFile(host) IN
    /\ tmLast' = Call("Remove", host, << >>, fs[tokenFile_] # NoFile)
    /\ fs' = fs
    /\ tmStored' = [tmStored EXCEPT ![tokenFile_] = Removed(host, fs[tokenFile_])]
    /\ UNCHANGED << pmVars, duoVars, fnVars, clVars, vtVars, psVars, clientTokens, tmWriter, tmRead >>

\* RemoveToken(host): os.Remove, an error when the file does not exist
RemoveToken(host) ==
    LET tokenFile_ == getTokenFile(host) IN
    /\ tmLast' = Call("Remove", host, << >>, fs[tokenFile_] # NoFile)
    /\ fs' = [fs EXCEPT ![tokenFile_] = NoFile]
    /\ tmStored' = [tmStored EXCEPT ![tokenFile_] = Removed(host, fs[tokenFile_])]
    /\ UNCHANGED << pmVars, duoVars, fnVars, clVars, vtVars, psVars, clientTokens, tmWriter, tmRead >>

CallSetToken == \E h \in Hosts, t \in clientTokens : SetToken(h, t)
CallGetToken == \E h \in Hosts : GetToken(h)
CallRemoveToken == \E h \in Hosts : RemoveToken(h)

\* A client of the token manager: it holds the plain token and one more
\* token, and makes any calls with them, one after the other
TMInit ==
    /\ \E t \in Tokens : clientTokens = { PlainToken, t }
    /\ PmStart
    /\ variant = "single"
    /\ statFails = FALSE
    /\ flagPassword = ""
    /\ envPassword = ""
    /\ command = "status"
    /\ portArgs = << >>
    /\ tokenFile = 0
    /\ tokenAtStart = 0
    /\ fs = [f \in FileNames |-> NoFile]
    /\ tmLast = NoCall
    /\ tmStored = [f \in FileNames |-> NoEntry]
    /\ tmWriter = NoWrite
    /\ tmRead = NoRead
    /\ DuoIdle
    /\ FnIdle
    /\ ClIdle
    /\ VtIdle
    /\ PsIdle

TMNext ==
    \/ CallSetToken
    \/ CallGetToken
    \/ CallRemoveToken

TMSpec == TMInit /\ [][TMNext]_vars

----------------------------------------------------------------------------
(* Part 2, continued: a SetToken and the GetToken of another goroutine *)

\* What GetToken returns for a file of content data: the token and true, or
\* the empty token and false for an error
ReadOf(data) ==
    LET doc == IF data = NoFile THEN [ok |-> FALSE, token |-> << >>] ELSE Unmarshal(data)
    IN  [ok |-> doc.ok, tok |-> IF doc.ok THEN doc.token ELSE << >>]

\* SetToken up to the opening of the file: os.WriteFile opens it with
\* O_WRONLY|O_CREATE|O_TRUNC, which empties an existing file at once
SetTokenOpen(host, token) ==
    /\ tmWriter.pc = "idle"
    /\ tmWriter' = [pc |-> "opened", host |-> host, tok |-> token,
                    had |-> ReadOf(fs[getTokenFile(host)]).ok,
                    old |-> ReadOf(fs[getTokenFile(host)]).tok]
    /\ fs' = [fs EXCEPT ![getTokenFile(host)] = << >>]
    /\ UNCHANGED << pmVars, duoVars, fnVars, clVars, vtVars, psVars, clientTokens, tmLast, tmStored, tmRead >>

\* The rest of SetToken: os.WriteFile writes the data and closes the file
SetTokenWrite ==
    /\ tmWriter.pc = "opened"
    /\ fs' = [fs EXCEPT ![getTokenFile(tmWriter.host)] = Marshal(tmWriter.tok)]
    /\ tmWriter' = NoWrite
    /\ UNCHANGED << pmVars, duoVars, fnVars, clVars, vtVars, psVars, clientTokens, tmLast, tmStored, tmRead >>

\* GetToken(host) in the other goroutine.  `during` tells that it ran while a
\* SetToken was replacing an entry of the same file that GetToken could read
\* before; old and new are what GetToken returns before and after that
\* SetToken.
ConcurrentGetToken(host) ==
    LET got == ReadOf(fs[getTokenFile(host)])
        replacing == /\ tmWriter.pc = "opened"
                     /\ getTokenFile(tmWriter.host) = getTokenFile(host)
                     /\ tmWriter.had
    IN  /\ tmRead' = [host |-> host, ok |-> got.ok, tok |-> got.tok,
                      during |-> replacing,
                      old |-> IF replacing THEN tmWriter.old ELSE << >>,
                      new |-> IF replacing
                              THEN ReadOf(Marshal(tmWriter.tok)).tok
                              ELSE << >>]
        /\ UNCHANGED << pmVars, duoVars, fnVars, clVars, vtVars, psVars, clientTokens, fs, tmLast, tmStored,
                        tmWriter >>

CallSetTokenOpen == \E h \in Hosts, t \in clientTokens : SetTokenOpen(h, t)
CallConcurrentGetToken == \E h \in Hosts : ConcurrentGetToken(h)

TMConcNext ==
    \/ CallSetTokenOpen
    \/ SetTokenWrite
    \/ CallConcurrentGetToken

\* One goroutine stores tokens, another reads them, on the same directory
TMConcSpec == TMInit /\ [][TMConcNext]_vars

----------------------------------------------------------------------------
(* Part 4: the pure functions of poe-management: getTokenPath, and the       *)
(* token path of the manual-invalidation snippet of docs/login.md;           *)
(* getPasswordFromEnv.  A step is one call; fnCall holds its arguments and    *)
(* its result.  Hosts are sequences of bytes, paths and passwords strings.   *)
(* parsePorts, which the process of Part 1 calls for its port commands.      *)

\* Longest host made of HostBytes that is passed to getTokenPath
MaxHostLen == 3

\* '.', '1', 's'
HostBytes == { 46, 49, 115 }

\* "192.168.1.10", the host of the usage text
UsageHost == << 49, 57, 50, 46, 49, 54, 56, 46, 49, 46, 49, 48 >>

\* "switch-floor3-rack12.building7.example.com": its sums pass the modulus
LongHost ==
    << 115, 119, 105, 116, 99, 104, 45, 102, 108, 111, 111, 114, 51, 45, 114,
       97, 99, 107, 49, 50, 46, 98, 117, 105, 108, 100, 105, 110, 103, 55, 46,
       101, 120, 97, 109, 112, 108, 101, 46, 99, 111, 109 >>

PathHosts == SeqsUpTo(HostBytes, MaxHostLen) \cup { UsageHost, LongHost }

\* Values of configDir / customDir, and of $TMPDIR
Dirs == { "", "/custom/path", "/home/u" }
TmpDirs == { "", "/var/tmp" }

\* hash/adler32: the modulus of the two sums
Adler == [mod |-> 65521]

\* nums[lo] + ... + nums[hi]
RECURSIVE SumOf(_, _, _)
SumOf(nums, lo, hi) ==
    IF lo > hi THEN 0
    ELSE IF lo = hi THEN nums[lo]
    ELSE LET mid == (lo + hi) \div 2 IN
         SumOf(nums, lo, mid) + SumOf(nums, mid + 1, hi)

\* adler32 update: starting from the sums ab, the loop adds each byte to s1
\* and then s1 to s2, and both are reduced modulo mod at the end of a block
\* of 5552 bytes (a host is shorter than a block)
AdlerUpdate(ab, bytes) ==
    LET n == Len(bytes)
        counted == [i \in 1..n |-> (n - i + 1) * bytes[i]]
        s1 == ab[1] + SumOf(bytes, 1, n)
        s2 == ab[2] + n * ab[1] + SumOf(counted, 1, n)
    IN  << s1 % Adler.mod, s2 % Adler.mod >>

\* adler32.Checksum, and the state of adler32.New() after io.WriteString: the
\* uint32 s2<<16 | s1, held as its 16-bit halves << s2, s1 >>
Checksum(bytes) ==
    LET ab == AdlerUpdate(<< 1, 0 >>, bytes) IN << ab[2], ab[1] >>

\* hash32.Sum(nil): the checksum as 4 bytes, most significant first
Sum(v) ==
    << v[1] \div 256, v[1] % 256, v[2] \div 256, v[2] % 256 >>

\* One hexadecimal digit, lowercase, as a string
HexChar(d) == SubSeq("0123456789abcdef", d + 1, d + 1)

\* fmt.Sprintf("%x", b) of a byte slice: two digits for each byte
RECURSIVE SprintfXBytes(_)
SprintfXBytes(b) ==
    IF b = << >> THEN ""
    ELSE HexChar(Head(b) \div 16) \o HexChar(Head(b) % 16) \o SprintfXBytes(Tail(b))

\* strconv.FormatUint(n, 16): no leading zero
RECURSIVE FormatHex(_)
FormatHex(n) ==
    IF n < 16 THEN HexChar(n) ELSE FormatHex(n \div 16) \o HexChar(n % 16)

\* fmt.Sprintf("%x", v) of a uint32 of halves v: the digits of the number, no
\* leading zero
SprintfXUint(v) ==
    IF v[1] = 0 THEN FormatHex(v[2])
    ELSE FormatHex(v[1]) \o SprintfXBytes(<< v[2] \div 256, v[2] % 256 >>)

\* os.TempDir on Unix
TempDir(tmpdir) == IF tmpdir = "" THEN "/tmp" ELSE tmpdir

\* Mutant: the checksum is formatted as a number
getTokenPath_Unpadded(configDir, host, tmpdir) ==
    LET hash == SprintfXUint(Checksum(host))
        dir == IF configDir = "" THEN TempDir(tmpdir) ELSE configDir
        dotConfigDir == dir \o "/.config/ntgrrc"
    IN  dotConfigDir \o "/token-" \o hash

\* getTokenPath(configDir, host), in an environment whose $TMPDIR is tmpdir
getTokenPath(configDir, host, tmpdir) ==
    LET hash == SprintfXBytes(Sum(Checksum(host)))
        dir == IF configDir = "" THEN TempDir(tmpdir) ELSE configDir
        dotConfigDir == dir \o "/.config/ntgrrc"
    IN  dotConfigDir \o "/token-" \o hash

\* filepath.Join of path elements that are clean: the empty ones are dropped,
\* the others joined by "/"
RECURSIVE Join(_)
Join(elems) ==
    IF elems = << >> THEN ""
    ELSE LET rest == Join(Tail(elems)) IN
         IF Head(elems) = "" THEN rest
         ELSE IF rest = "" THEN Head(elems)
         ELSE Head(elems) \o "/" \o rest

\* The token path of the manual-invalidation snippet (login.md, option 4)
ManualTokenPath(customDir, hostname) ==
    LET tokenHash == SprintfXUint(Checksum(hostname))
    IN  Join(<< customDir, ".config", "ntgrrc", "token-" \o tokenHash >>)

CallGetTokenPath ==
    /\ \E configDir \in Dirs, host \in PathHosts, tmpdir \in TmpDirs :
          fnCall' = [fn |-> "getTokenPath", configDir |-> configDir, host |-> host,
                     tmpdir |-> tmpdir,
                     out |-> getTokenPath(configDir, host, tmpdir)]
    /\ UNCHANGED << pmVars, tmVars, duoVars, clVars, vtVars, psVars, vtVars, psVars >>

\* Addresses given on the command line, and the environment: the variables
\* the program reads, each unset ("") or set
Addresses == { "sw1", "10.0.0.1" }

SwitchesValues ==
    { "", "sw1:listpw", "10.0.0.1:listpw", "sw2:other;sw1:listpw", " sw1 : listpw ;",
      "sw1", "sw1:first;sw1:second", "sw1:a:b", "sw1:;10.0.0.1:listpw", ";;",
      "sw1;\tsw1\t: list pw\t;sw1:second" }

\* The name a shell can export for a host: its dots replaced by underscores,
\* as in the README's example NETGEAR_PASSWORD_192_168_1_10
RECURSIVE Underscored(_)
Underscored(str) ==
    IF Len(str) = 0 THEN str
    ELSE (IF SubSeq(str, 1, 1) = "." THEN "_" ELSE SubSeq(str, 1, 1))
            \o Underscored(SubSeq(str, 2, Len(str)))

\* The host variables whose names are the address as it is, and the ones
\* whose names are written as the README writes them
HostVars == { "NETGEAR_PASSWORD_" \o a : a \in Addresses }
ReadmeVars == { "NETGEAR_PASSWORD_" \o Underscored(a) : a \in Addresses } \ HostVars

EnvNames == { "NETGEAR_SWITCHES" } \cup HostVars \cup ReadmeVars

Environments ==
    { env \in [EnvNames -> SwitchesValues \cup { "hostpw", "readmepw" }] :
        /\ env["NETGEAR_SWITCHES"] \in SwitchesValues
        /\ \A n \in HostVars : env[n] \in { "", "hostpw" }
        /\ \A n \in ReadmeVars : env[n] \in { "", "readmepw" } }

\* os.Getenv
Getenv(env, name) == IF name \in DOMAIN env THEN env[name] ELSE ""

\* strings.Index for a one-character separator: 0 when it does not occur
Index(str, sep) ==
    LET at == { i \in 1..Len(str) : SubSeq(str, i, i) = sep } IN
    IF at = { } THEN 0 ELSE CHOOSE i \in at : \A j \in at : i <= j

\* strings.Split(str, sep)
RECURSIVE Split(_, _)
Split(str, sep) ==
    LET i == Index(str, sep) IN
    IF i = 0 THEN << str >>
    ELSE << SubSeq(str, 1, i - 1) >> \o Split(SubSeq(str, i + 1, Len(str)), sep)

\* strings.SplitN(str, sep, 2)
SplitN2(str, sep) ==
    LET i == Index(str, sep) IN
    IF i = 0 THEN << str >>
    ELSE << SubSeq(str, 1, i - 1), SubSeq(str, i + 1, Len(str)) >>

\* The white space of the values: the space and the tab
White == { " ", "\t" }

\* strings.TrimSpace
RECURSIVE TrimSpace(_)
TrimSpace(str) ==
    IF Len(str) = 0 THEN str
    ELSE IF SubSeq(str, 1, 1) \in White THEN TrimSpace(SubSeq(str, 2, Len(str)))
    ELSE IF SubSeq(str, Len(str), Len(str)) \in White
         THEN TrimSpace(SubSeq(str, 1, Len(str) - 1))
    ELSE str

\* The loop of getPasswordFromEnv over the entries of NETGEAR_SWITCHES: the
\* password of the first entry for the address; found is FALSE when the loop
\* ends without a return
RECURSIVE SwitchesEntry(_, _)
SwitchesEntry(entries, address) ==
    IF entries = << >> THEN [found |-> FALSE, pass |-> ""]
    ELSE LET parts == SplitN2(Head(entries), ":") IN
         IF Len(parts) = 2 /\ TrimSpace(parts[1]) = address
         THEN [found |-> TRUE, pass |-> TrimSpace(parts[2])]
         ELSE SwitchesEntry(Tail(entries), address)

\* Mutant: an entry is cut at every ':' and must have two parts
getPasswordFromEnv_SplitAll(address, env) ==
    LET envVar == "NETGEAR_PASSWORD_" \o address
        password == Getenv(env, envVar)
        switches == Getenv(env, "NETGEAR_SWITCHES")
        entries == Split(switches, ";")
        two == { i \in 1..Len(entries) :
                    /\ Len(Split(entries[i], ":")) = 2
                    /\ TrimSpace(Split(entries[i], ":")[1]) = address }
    IN  IF password # "" THEN password
        ELSE IF two = { } THEN ""
        ELSE TrimSpace(Split(entries[CHOOSE i \in two : \A j \in two : i <= j], ":")[2])

\* getPasswordFromEnv(address, debug)
getPasswordFromEnv(address, env) ==
    LET envVar == "NETGEAR_PASSWORD_" \o address
        password == Getenv(env, envVar)
        switches == Getenv(env, "NETGEAR_SWITCHES")
    IN  IF password # "" THEN password
        ELSE IF switches # ""
             THEN SwitchesEntry(Split(switches, ";"), address).pass
             ELSE ""

CallGetPasswordFromEnv ==
    /\ \E address \in Addresses, env \in Environments :
          fnCall' = [fn |-> "getPasswordFromEnv", address |-> address, env |-> env,
                     out |-> getPasswordFromEnv(address, env)]
    /\ UNCHANGED << pmVars, tmVars, duoVars, clVars, vtVars, psVars, vtVars, psVars >>

\* parsePorts.  Its arguments are the words after the address on the command
\* line; a call either returns the list of ports or ends the process in
\* log.Fatalf (fatal).

\* Longest list of arguments made of PortArgs
MaxArgs == 2

PortArgs == { "3", "5-8", "1-3,2-5", "3-1", "-5", "", "x", " 2 - 3 ,+2" }

\* The lists of arguments of the README's examples, and some more elements
\* that are not ports, are among the inputs
PortArgLists ==
    SeqsUpTo(PortArgs, MaxArgs)
        \cup { << "1", "3", "5-8" >>, << "1-8", "14-16" >> }
        \cup { << "7-7", "08" >>, << "1--3" >>, << "2-x" >>, << "1,,2" >>, << "1 2" >> }

\* The value of a string of decimal digits
RECURSIVE DigitsValue(_)
DigitsValue(str) ==
    IF Len(str) = 0 THEN 0
    ELSE 10 * DigitsValue(SubSeq(str, 1, Len(str) - 1))
            + Index("0123456789", SubSeq(str, Len(str), Len(str))) - 1

\* strconv.Atoi: an optional sign and at least one decimal digit; everything
\* else is an error (the numbers of the inputs fit an int)
Atoi(str) ==
    LET signed == Len(str) > 0 /\ SubSeq(str, 1, 1) \in { "+", "-" }
        digits == IF signed THEN SubSeq(str, 2, Len(str)) ELSE str
        ok == /\ Len(digits) > 0
              /\ \A i \in 1..Len(digits) : Index("0123456789", SubSeq(digits, i, i)) # 0
    IN  IF ~ok THEN [ok |-> FALSE, n |-> 0]
        ELSE [ok |-> TRUE,
              n |-> IF signed /\ SubSeq(str, 1, 1) = "-"
                    THEN 0 - DigitsValue(digits) ELSE DigitsValue(digits)]

\* The local variables of parsePorts, and its end in log.Fatalf
NoPorts == [ports |-> << >>, seen |-> { }, fatal |-> FALSE]

Fatalf(st) == [st EXCEPT !.fatal = TRUE]

\* Mutant: a port is appended whether it was seen or not
AddPort_Always(st, port) ==
    [st EXCEPT !.ports = Append(@, port), !.seen = @ \cup { port }]

\* if !seen[port] { ports = append(ports, port); seen[port] = true }
AddPort(st, port) ==
    IF port \in st.seen THEN st
    ELSE [st EXCEPT !.ports = Append(@, port), !.seen = @ \cup { port }]

\* Mutant: the end of a range is left out
RECURSIVE AddRange_HalfOpen(_, _, _)
AddRange_HalfOpen(st, start, end) ==
    IF start >= end THEN st ELSE AddRange_HalfOpen(AddPort(st, start), start + 1, end)

\* for port := start; port <= end; port++ { ... }
RECURSIVE AddRange(_, _, _)
AddRange(st, start, end) ==
    IF start > end THEN st ELSE AddRange(AddPort(st, start), start + 1, end)

\* Mutant: a token is read as a number first, as a range when it is not one
ParseToken_NumberFirst(st, tok) ==
    LET p == TrimSpace(tok) IN
    IF Atoi(p).ok THEN AddPort(st, Atoi(p).n)
    ELSE IF Index(p, "-") # 0
    THEN LET rangeParts == SplitN2(p, "-")
             start == Atoi(TrimSpace(rangeParts[1]))
             end == Atoi(TrimSpace(rangeParts[2]))
         IN  IF ~start.ok \/ ~end.ok THEN Fatalf(st)
             ELSE AddRange(st, start.n, end.n)
    ELSE Fatalf(st)

\* The body of the inner loop of parsePorts for one element of
\* strings.Split(arg, ",")
ParseToken(st, tok) ==
    LET p == TrimSpace(tok) IN
    IF Index(p, "-") # 0
    THEN LET rangeParts == SplitN2(p, "-")
             start == Atoi(TrimSpace(rangeParts[1]))
             end == Atoi(TrimSpace(rangeParts[2]))
         IN  IF Len(rangeParts) # 2 THEN Fatalf(st)
             ELSE IF ~start.ok THEN Fatalf(st)
             ELSE IF ~end.ok THEN Fatalf(st)
             ELSE IF start.n > end.n THEN Fatalf(st)
             ELSE AddRange(st, start.n, end.n)
    ELSE LET port == Atoi(p) IN
         IF ~port.ok THEN Fatalf(st) ELSE AddPort(st, port.n)

\* The inner loop, which log.Fatalf ends
RECURSIVE ParseTokens(_, _)
ParseTokens(st, toks) ==
    IF toks = << >> \/ st.fatal THEN st
    ELSE ParseTokens(ParseToken(st, Head(toks)), Tail(toks))

\* The outer loop
RECURSIVE ParseArgs(_, _)
ParseArgs(st, args) ==
    IF args = << >> \/ st.fatal THEN st
    ELSE ParseArgs(ParseTokens(st, Split(Head(args), ",")), Tail(args))

\* parsePorts(args): the ports returned, none when the process has ended
parsePorts(args) ==
    LET st == ParseArgs(NoPorts, args) IN
    [fatal |-> st.fatal, ports |-> IF st.fatal THEN << >> ELSE st.ports]

CallParsePorts ==
    /\ \E args \in PortArgLists :
          fnCall' = [fn |-> "parsePorts", args |-> args, out |-> parsePorts(args)]
    /\ UNCHANGED << pmVars, tmVars, duoVars, clVars, vtVars, psVars, vtVars, psVars >>

----------------------------------------------------------------------------
(* Part 1, continued: the poe-management process *)

\* The words after the command: none, a port followed by a word that is not
\* one, ports
RunPortArgs == { << >>, << "3", "x" >>, << "5-8", "3" >> }

\* What parsePorts does with each of them
RunPorts == [args \in RunPortArgs |-> parsePorts(args)]

\* Mutant: the words are counted, not parsed
portsOk_AnyWord == Len(portArgs) # 0

\* enablePorts, disablePorts, cyclePorts up to handleAuthError: parsePorts has
\* returned, and the list is not empty
portsOk ==
    LET ports == RunPorts[portArgs] IN ~ports.fatal /\ Len(ports.ports) # 0

Init ==
    /\ variant \in { "single", "retry" }
    /\ flagPassword \in { "", "flagpw" }
    /\ envPassword \in { "", "envpw" }
    /\ command \in Commands
    /\ portArgs \in IF command \in PortCommands THEN RunPortArgs ELSE { << >> }
    /\ tokenFile \in { 0, 1, NotAToken }
    /\ statFails \in IF tokenFile = 1 THEN BOOLEAN ELSE { FALSE }
    /\ tokenAtStart = IF hasValidToken THEN tokenFile ELSE 0
    /\ PmStart
    /\ clientTokens = { }
    /\ fs = [f \in FileNames |-> NoFile]
    /\ tmLast = NoCall
    /\ tmStored = [f \in FileNames |-> NoEntry]
    /\ tmWriter = NoWrite
    /\ tmRead = NoRead
    /\ DuoIdle
    /\ FnIdle
    /\ ClIdle
    /\ VtIdle
    /\ PsIdle

\* Mutant: the environment is read first, the flag is the fallback
Main_EnvFirst ==
    /\ pc = "main"
    /\ UNCHANGED << tmVars, duoVars, fnVars, clVars, vtVars, psVars, vtVars, psVars >>
    /\ envConsulted' = TRUE
    /\ globalPassword' = IF envPassword = "" THEN flagPassword ELSE envPassword
    /\ pc' = "ensure"
    /\ UNCHANGED << variant, statFails, flagPassword, envPassword, command, portArgs, tokenFile,
                    tokenAtStart, loginAttempted, caller, attempt, loginRet, net,
                    sleeps, haeOps, haeLogins, haeRet, tokenAtHae, exit >>

\* main up to the call of ensureAuthenticated: getPasswordFromEnv is called
\* only when the flag gave no password
Main ==
    /\ pc = "main"
    /\ UNCHANGED << tmVars, duoVars, fnVars, clVars, vtVars, psVars, vtVars, psVars >>
    /\ envConsulted' = (flagPassword = "")
    /\ globalPassword' = IF flagPassword = "" THEN envPassword ELSE flagPassword
    /\ pc' = "ensure"
    /\ UNCHANGED << variant, statFails, flagPassword, envPassword, command, portArgs, tokenFile,
                    tokenAtStart, loginAttempted, caller, attempt, loginRet, net,
                    sleeps, haeOps, haeLogins, haeRet, tokenAtHae, exit >>

\* Mutant: an existing token is trusted without the keep-alive check
EnsureAuthenticated_Optimistic ==
    /\ pc = "ensure"
    /\ UNCHANGED << tmVars, duoVars, fnVars, clVars, vtVars, psVars, vtVars, psVars >>
    /\ IF hasValidToken
       THEN pc' = "dispatch" /\ caller' = caller
       ELSE pc' = "login" /\ caller' = "ensure"
    /\ UNCHANGED << variant, statFails, flagPassword, envPassword, envConsulted, command, portArgs, tokenFile,
                    tokenAtStart, globalPassword, loginAttempted, attempt, loginRet,
                    net, sleeps, haeOps, haeLogins, haeRet, tokenAtHae, exit >>

\* ensureAuthenticated up to its first request: hasValidToken is a stat of the file
EnsureAuthenticated ==
    /\ pc = "ensure"
    /\ UNCHANGED << tmVars, duoVars, fnVars, clVars, vtVars, psVars, vtVars, psVars >>
    /\ IF hasValidToken
       THEN pc' = "validate" /\ caller' = caller
       ELSE pc' = "login" /\ caller' = "ensure"
    /\ UNCHANGED << variant, statFails, flagPassword, envPassword, envConsulted, command, portArgs, tokenFile,
                    tokenAtStart, globalPassword, loginAttempted, attempt, loginRet,
                    net, sleeps, haeOps, haeLogins, haeRet, tokenAtHae, exit >>

\* Mutant: validateToken returns true whatever the error
ValidateToken_AlwaysValid ==
    /\ pc = "validate"
    /\ UNCHANGED << tmVars, duoVars, fnVars, clVars, vtVars, psVars, vtVars, psVars >>
    /\ \E e \in { NoErr } \cup OpErrors :
        /\ net' = Sent("validateToken", e)
        /\ pc' = "dispatch"
    /\ UNCHANGED << variant, statFails, flagPassword, envPassword, envConsulted, command, portArgs, tokenFile,
                    tokenAtStart, globalPassword, loginAttempted, caller, attempt,
                    loginRet, sleeps, haeOps, haeLogins, haeRet, tokenAtHae, exit >>

\* validateToken: one status request; ensureAuthenticated removes the token
\* and goes on to performLogin when it returns false
ValidateToken ==
    /\ pc = "validate"
    /\ UNCHANGED << tmVars, duoVars, fnVars, clVars, vtVars, psVars, vtVars, psVars >>
    /\ \E e \in { NoErr } \cup OpErrors :
        /\ net' = Sent("validateToken", e)
        /\ IF e # NoErr /\ IsAuthError(e)
           THEN /\ tokenFile' = 0
                /\ pc' = "login"
                /\ caller' = "ensure"
           ELSE /\ tokenFile' = tokenFile
                /\ pc' = "dispatch"
                /\ caller' = caller
    /\ UNCHANGED << variant, statFails, flagPassword, envPassword, envConsulted, command, portArgs,
                    tokenAtStart, globalPassword, loginAttempted, attempt, loginRet,
                    sleeps, haeOps, haeLogins, haeRet, tokenAtHae, exit >>

\* Mutant: handleAuthError runs the operation again whatever the re-login returned
LoginReturns_RetryAnyway(e) ==
    /\ loginRet' = e
    /\ IF caller = "ensure"
       THEN /\ haeRet' = haeRet
            /\ IF e = NoErr
               THEN pc' = "dispatch" /\ exit' = exit
               ELSE pc' = "done" /\ exit' = "fatal"
       ELSE pc' = "retry" /\ exit' = exit /\ haeRet' = haeRet

\* What follows the return of performLogin with error e (NoErr: nil):
\* in ensureAuthenticated, main ends with log.Fatalf or goes on to the command;
\* in handleAuthError, the error is wrapped and returned, or the operation retried.
LoginReturns(e) ==
    /\ loginRet' = e
    /\ IF caller = "ensure"
       THEN /\ haeRet' = haeRet
            /\ IF e = NoErr
               THEN pc' = "dispatch" /\ exit' = exit
               ELSE pc' = "done" /\ exit' = "fatal"
       ELSE IF e = NoErr
            THEN pc' = "retry" /\ exit' = exit /\ haeRet' = haeRet
            ELSE /\ pc' = "done"
                 /\ exit' = "fatal"
                 /\ haeRet' = "re-authentication failed: " \o e

\* Mutant: performLogin sends the login request whatever the password is
PerformLogin_NoPasswordCheck ==
    /\ pc = "login"
    /\ UNCHANGED << tmVars, duoVars, fnVars, clVars, vtVars, psVars, vtVars, psVars >>
    /\ attempt' = 1
    /\ pc' = "attempt"
    /\ UNCHANGED << loginRet, haeRet, exit >>
    /\ UNCHANGED << variant, statFails, flagPassword, envPassword, envConsulted, command, portArgs, tokenFile,
                    tokenAtStart, globalPassword, loginAttempted, caller, net,
                    sleeps, haeOps, haeLogins, tokenAtHae >>

\* performLogin up to its first request
PerformLogin ==
    /\ pc = "login"
    /\ UNCHANGED << tmVars, duoVars, fnVars, clVars, vtVars, psVars, vtVars, psVars >>
    /\ IF globalPassword = ""
       THEN /\ LoginReturns("no password available for authentication")
            /\ attempt' = attempt
       ELSE /\ attempt' = 1
            /\ pc' = "attempt"
            /\ UNCHANGED << loginRet, haeRet, exit >>
    /\ UNCHANGED << variant, statFails, flagPassword, envPassword, envConsulted, command, portArgs, tokenFile,
                    tokenAtStart, globalPassword, loginAttempted, caller, net,
                    sleeps, haeOps, haeLogins, tokenAtHae >>

\* Mutant: a successful login does not set loginAttempted
LoginAttempt_NoFlag ==
    /\ pc = "attempt"
    /\ UNCHANGED << tmVars, duoVars, fnVars, clVars, vtVars, psVars, vtVars, psVars >>
    /\ \E e \in { NoErr } \cup LoginErrors :
        /\ net' = Sent("performLogin", e)
        /\ IF e = NoErr
           THEN /\ tokenFile' = FreshToken
                /\ LoginReturns(NoErr)
                /\ UNCHANGED << attempt, sleeps >>
           ELSE /\ UNCHANGED << tokenFile >>
                /\ IF attempt < maxAttempts
                   THEN /\ sleeps' = Append(sleeps, retryDelays[attempt])
                        /\ attempt' = attempt + 1
                        /\ UNCHANGED << pc, loginRet, haeRet, exit >>
                   ELSE /\ LoginReturns(LoginFailure(e))
                        /\ UNCHANGED << attempt, sleeps >>
    /\ UNCHANGED << variant, statFails, flagPassword, envPassword, envConsulted, command, portArgs,
                    tokenAtStart, globalPassword, loginAttempted, caller, haeOps,
                    haeLogins, tokenAtHae >>

\* One iteration of performLogin's loop: LoginCommand.Run, then return or sleep.
\* A successful LoginCommand caches the new token in the host's token file.
LoginAttempt ==
    /\ pc = "attempt"
    /\ UNCHANGED << tmVars, duoVars, fnVars, clVars, vtVars, psVars, vtVars, psVars >>
    /\ \E e \in { NoErr } \cup LoginErrors :
        /\ net' = Sent("performLogin", e)
        /\ IF e = NoErr
           THEN /\ loginAttempted' = TRUE
                /\ tokenFile' = FreshToken
                /\ LoginReturns(NoErr)
                /\ UNCHANGED << attempt, sleeps >>
           ELSE /\ UNCHANGED << loginAttempted, tokenFile >>
                /\ IF attempt < maxAttempts
                   THEN /\ sleeps' = Append(sleeps, retryDelays[attempt])
                        /\ attempt' = attempt + 1
                        /\ UNCHANGED << pc, loginRet, haeRet, exit >>
                   ELSE /\ LoginReturns(LoginFailure(e))
                        /\ UNCHANGED << attempt, sleeps >>
    /\ UNCHANGED << variant, statFails, flagPassword, envPassword, envConsulted, command, portArgs,
                    tokenAtStart, globalPassword, caller, haeOps, haeLogins,
                    tokenAtHae >>

\* Mutant: every command starts with loginAttempted false
Dispatch_ResetsFlag ==
    /\ pc = "dispatch"
    /\ UNCHANGED << tmVars, duoVars, fnVars, clVars, vtVars, psVars, vtVars, psVars >>
    /\ loginAttempted' = FALSE
    /\ IF command = "bogus"
       THEN pc' = "done" /\ exit' = "usage" /\ tokenAtHae' = tokenAtHae
       ELSE IF command \in PortCommands /\ ~portsOk
            THEN pc' = "done" /\ exit' = "fatal" /\ tokenAtHae' = tokenAtHae
            ELSE pc' = "op" /\ exit' = exit /\ tokenAtHae' = tokenFile
    /\ UNCHANGED << variant, statFails, flagPassword, envPassword, envConsulted, command, portArgs, tokenFile,
                    tokenAtStart, globalPassword, caller, attempt,
                    loginRet, net, sleeps, haeOps, haeLogins, haeRet >>

\* main's switch on the command; the port commands parse their ports first
Dispatch ==
    /\ pc = "dispatch"
    /\ UNCHANGED << tmVars, duoVars, fnVars, clVars, vtVars, psVars, vtVars, psVars >>
    /\ IF command = "bogus"
       THEN pc' = "done" /\ exit' = "usage" /\ tokenAtHae' = tokenAtHae
       ELSE IF command \in PortCommands /\ ~portsOk
            THEN pc' = "done" /\ exit' = "fatal" /\ tokenAtHae' = tokenAtHae
            ELSE pc' = "op" /\ exit' = exit /\ tokenAtHae' = tokenFile
    /\ UNCHANGED << variant, statFails, flagPassword, envPassword, envConsulted, command, portArgs, tokenFile,
                    tokenAtStart, globalPassword, loginAttempted, caller, attempt,
                    loginRet, net, sleeps, haeOps, haeLogins, haeRet >>

\* Mutant: every error of the operation is treated as a session expiry
HandleAuthError_RetryAll ==
    /\ pc = "op"
    /\ UNCHANGED << tmVars, duoVars, fnVars, clVars, vtVars, psVars, vtVars, psVars >>
    /\ haeOps' = haeOps + 1
    /\ \E e \in { NoErr } \cup OpErrors :
        /\ net' = Sent("retryFunc", e)
        /\ IF e = NoErr
           THEN /\ haeRet' = NoErr
                /\ pc' = "done" /\ exit' = "ok"
                /\ UNCHANGED << tokenFile, caller, haeLogins >>
           ELSE IF loginAttempted
                THEN /\ haeRet' = "authentication failed even after re-login: " \o e
                     /\ pc' = "done" /\ exit' = "fatal"
                     /\ UNCHANGED << tokenFile, caller, haeLogins >>
                ELSE /\ tokenFile' = 0
                     /\ haeLogins' = haeLogins + 1
                     /\ caller' = "handle"
                     /\ pc' = "login"
                     /\ UNCHANGED << haeRet, exit >>
    /\ UNCHANGED << variant, statFails, flagPassword, envPassword, envConsulted, command, portArgs,
                    tokenAtStart, globalPassword, loginAttempted, attempt, loginRet,
                    sleeps, tokenAtHae >>

\* handleAuthError: the first retryFunc() and what is decided on its error
HandleAuthError ==
    /\ pc = "op"
    /\ UNCHANGED << tmVars, duoVars, fnVars, clVars, vtVars, psVars, vtVars, psVars >>
    /\ haeOps' = haeOps + 1
    /\ \E e \in { NoErr } \cup OpErrors :
        /\ net' = Sent("retryFunc", e)
        /\ IF e = NoErr
           THEN /\ haeRet' = NoErr
                /\ pc' = "done" /\ exit' = "ok"
                /\ UNCHANGED << tokenFile, caller, haeLogins >>
           ELSE IF IsAuthError(e)
                THEN IF loginAttempted
                     THEN /\ haeRet' = "authentication failed even after re-login: " \o e
                          /\ pc' = "done" /\ exit' = "fatal"
                          /\ UNCHANGED << tokenFile, caller, haeLogins >>
                     ELSE /\ tokenFile' = 0
                          /\ haeLogins' = haeLogins + 1
                          /\ caller' = "handle"
                          /\ pc' = "login"
                          /\ UNCHANGED << haeRet, exit >>
                ELSE /\ haeRet' = e
                     /\ pc' = "done" /\ exit' = "fatal"
                     /\ UNCHANGED << tokenFile, caller, haeLogins >>
    /\ UNCHANGED << variant, statFails, flagPassword, envPassword, envConsulted, command, portArgs,
                    tokenAtStart, globalPassword, loginAttempted, attempt, loginRet,
                    sleeps, tokenAtHae >>

\* Mutant: a retry that fails with a session expiry is run once more
HandleAuthErrorRetry_Again ==
    /\ pc = "retry"
    /\ UNCHANGED << tmVars, duoVars, fnVars, clVars, vtVars, psVars, vtVars, psVars >>
    /\ haeOps' = haeOps + 1
    /\ \E e \in { NoErr } \cup OpErrors :
        /\ net' = Sent("retryFunc", e)
        /\ IF e # NoErr /\ IsAuthError(e) /\ haeOps < 3
           THEN UNCHANGED << haeRet, pc, exit >>
           ELSE /\ haeRet' = e
                /\ pc' = "done"
                /\ exit' = IF e = NoErr THEN "ok" ELSE "fatal"
    /\ UNCHANGED << variant, statFails, flagPassword, envPassword, envConsulted, command, portArgs, tokenFile,
                    tokenAtStart, globalPassword, loginAttempted, caller, attempt,
                    loginRet, sleeps, haeLogins, tokenAtHae >>

\* handleAuthError: return retryFunc() after the re-login
HandleAuthErrorRetry ==
    /\ pc = "retry"
    /\ UNCHANGED << tmVars, duoVars, fnVars, clVars, vtVars, psVars, vtVars, psVars >>
    /\ haeOps' = haeOps + 1
    /\ \E e \in { NoErr } \cup OpErrors :
        /\ net' = Sent("retryFunc", e)
        /\ haeRet' = e
        /\ pc' = "done"
        /\ exit' = IF e = NoErr THEN "ok" ELSE "fatal"
    /\ UNCHANGED << variant, statFails, flagPassword, envPassword, envConsulted, command, portArgs, tokenFile,
                    tokenAtStart, globalPassword, loginAttempted, caller, attempt,
                    loginRet, sleeps, haeLogins, tokenAtHae >>

Next ==
    \/ Main
    \/ EnsureAuthenticated
    \/ ValidateToken
    \/ PerformLogin
    \/ LoginAttempt
    \/ Dispatch
    \/ HandleAuthError
    \/ HandleAuthErrorRetry

Spec == Init /\ [][Next]_vars


\* A process runs to its end: no request blocks for ever (the HTTP exchanges
\* have finite timeouts) and no step waits for another process.
LiveSpec == Spec /\ WF_vars(Next)

----------------------------------------------------------------------------
(* Part 3: two runs of poe-management (main.go) against the same host.  The  *)
(* processes share nothing but the host's token file; each step is one       *)
(* function call or request of one process.                                  *)

Procs == { 1, 2 }

\* The state of a process when it calls ensureAuthenticated.  got: the token
\* its own login has cached (0: none); removes: its calls of removeToken;
\* rmAbsent: one of them found no token file.
StartRun(password) ==
    [pc |-> "ensure", password |-> password, loginAttempted |-> FALSE,
     caller |-> "none", got |-> 0, removes |-> 0, rmAbsent |-> FALSE,
     exit |-> "running"]

\* The process after removeToken: os.Remove on the token path, its error
\* dropped; the caller goes on to performLogin
AfterRemoveToken(run, by) ==
    [run EXCEPT !.removes = @ + 1,
                !.rmAbsent = @ \/ duoFile = 0,
                !.pc = "login",
                !.caller = by]

Ended(run, how) == [run EXCEPT !.pc = "done", !.exit = how]

\* ensureAuthenticated up to its first request
DuoEnsureAuthenticated(p) ==
    /\ duoRun[p].pc = "ensure"
    /\ duoRun' = [duoRun EXCEPT
                    ![p] = IF duoFile # 0
                           THEN [@ EXCEPT !.pc = "validate"]
                           ELSE [@ EXCEPT !.pc = "login", !.caller = "ensure"]]
    /\ UNCHANGED << pmVars, tmVars, fnVars, clVars, vtVars, psVars, duoFile >>

\* validateToken, and removeToken when it returns false
DuoValidateToken(p) ==
    /\ duoRun[p].pc = "validate"
    /\ \E e \in { NoErr } \cup OpErrors :
        IF e # NoErr /\ IsAuthError(e)
        THEN /\ duoFile' = 0
             /\ duoRun' = [duoRun EXCEPT ![p] = AfterRemoveToken(@, "ensure")]
        ELSE /\ duoFile' = duoFile
             /\ duoRun' = [duoRun EXCEPT ![p] = [@ EXCEPT !.pc = "op"]]
    /\ UNCHANGED << pmVars, tmVars, fnVars, clVars, vtVars, psVars, vtVars, psVars >>

\* performLogin up to its request
DuoPerformLogin(p) ==
    /\ duoRun[p].pc = "login"
    /\ duoRun' = [duoRun EXCEPT
                    ![p] = IF @.password = ""
                           THEN Ended(@, "fatal")
                           ELSE [@ EXCEPT !.pc = "attempt"]]
    /\ UNCHANGED << pmVars, tmVars, fnVars, clVars, vtVars, psVars, duoFile >>

\* LoginCommand.Run and the return of performLogin; a successful login caches
\* its token in the host's token file
DuoLoginAttempt(p) ==
    /\ duoRun[p].pc = "attempt"
    /\ \E e \in { NoErr } \cup LoginErrors :
        IF e = NoErr
        THEN /\ duoFile' = p + 1
             /\ duoRun' = [duoRun EXCEPT
                             ![p] = [@ EXCEPT !.loginAttempted = TRUE,
                                              !.got = p + 1,
                                              !.pc = IF duoRun[p].caller = "ensure"
                                                     THEN "op" ELSE "retry"]]
        ELSE /\ duoFile' = duoFile
             /\ duoRun' = [duoRun EXCEPT ![p] = Ended(@, "fatal")]
    /\ UNCHANGED << pmVars, tmVars, fnVars, clVars, vtVars, psVars, vtVars, psVars >>

\* Mutant: removeToken reports the error of os.Remove and the process stops
DuoHandleAuthError_RemoveFails(p) ==
    /\ duoRun[p].pc = "op"
    /\ \E e \in { NoErr } \cup OpErrors :
        IF e = NoErr
        THEN /\ duoRun' = [duoRun EXCEPT ![p] = Ended(@, "ok")]
             /\ duoFile' = duoFile
        ELSE IF IsAuthError(e) /\ ~duoRun[p].loginAttempted
             THEN /\ duoFile' = 0
                  /\ duoRun' = [duoRun EXCEPT
                                  ![p] = IF duoFile = 0
                                         THEN Ended(AfterRemoveToken(@, "handle"), "fatal")
                                         ELSE AfterRemoveToken(@, "handle")]
             ELSE /\ duoRun' = [duoRun EXCEPT ![p] = Ended(@, "fatal")]
                  /\ duoFile' = duoFile
    /\ UNCHANGED << pmVars, tmVars, fnVars, clVars, vtVars, psVars, vtVars, psVars >>

\* handleAuthError: the first retryFunc() and what is decided on its error
DuoHandleAuthError(p) ==
    /\ duoRun[p].pc = "op"
    /\ \E e \in { NoErr } \cup OpErrors :
        IF e = NoErr
        THEN /\ duoRun' = [duoRun EXCEPT ![p] = Ended(@, "ok")]
             /\ duoFile' = duoFile
        ELSE IF IsAuthError(e) /\ ~duoRun[p].loginAttempted
             THEN /\ duoFile' = 0
                  /\ duoRun' = [duoRun EXCEPT ![p] = AfterRemoveToken(@, "handle")]
             ELSE /\ duoRun' = [duoRun EXCEPT ![p] = Ended(@, "fatal")]
                  /\ duoFile' = duoFile
    /\ UNCHANGED << pmVars, tmVars, fnVars, clVars, vtVars, psVars, vtVars, psVars >>

\* handleAuthError: return retryFunc() after the re-login
DuoHandleAuthErrorRetry(p) ==
    /\ duoRun[p].pc = "retry"
    /\ \E e \in { NoErr } \cup OpErrors :
        duoRun' = [duoRun EXCEPT ![p] = Ended(@, IF e = NoErr THEN "ok" ELSE "fatal")]
    /\ UNCHANGED << pmVars, tmVars, fnVars, clVars, vtVars, psVars, duoFile >>

\* The poe-management process and the token manager at rest
PmIdle ==
    /\ PmStart
    /\ variant = "single"
    /\ statFails = FALSE
    /\ flagPassword = ""
    /\ envPassword = ""
    /\ command = "status"
    /\ portArgs = << >>
    /\ tokenFile = 0
    /\ tokenAtStart = 0

TmIdle ==
    /\ clientTokens = { }
    /\ fs = [f \in FileNames |-> NoFile]
    /\ tmLast = NoCall
    /\ tmStored = [f \in FileNames |-> NoEntry]
    /\ tmWriter = NoWrite
    /\ tmRead = NoRead

\* Two processes are started, each with or without a password, with or
\* without a token cached by an earlier run
DuoInit ==
    /\ PmIdle
    /\ TmIdle
    /\ FnIdle
    /\ ClIdle
    /\ VtIdle
    /\ PsIdle
    /\ duoFile \in { 0, 1 }
    /\ \E pw \in [Procs -> { "", "duopw" }] :
          duoRun = [q \in Procs |-> StartRun(pw[q])]

DuoNext ==
    \E p \in Procs :
        \/ DuoEnsureAuthenticated(p)
        \/ DuoValidateToken(p)
        \/ DuoPerformLogin(p)
        \/ DuoLoginAttempt(p)
        \/ DuoHandleAuthError(p)
        \/ DuoHandleAuthErrorRetry(p)

DuoSpec == DuoInit /\ [][DuoNext]_vars

----------------------------------------------------------------------------
(* Part 4, continued: the calls of the pure functions, one after the other *)

FnInit ==
    /\ PmIdle
    /\ TmIdle
    /\ DuoIdle
    /\ FnIdle
    /\ ClIdle
    /\ VtIdle
    /\ PsIdle

FnNext ==
    \/ CallGetTokenPath
    \/ CallGetPasswordFromEnv
    \/ CallParsePorts

FnSpec == FnInit /\ [][FnNext]_vars

----------------------------------------------------------------------------
(* Part 5: the Client of the netgear package: GetModel, Login, LoginAuto.   *)
(* A step is one call of a method by the owner of the Client.               *)

\* Longest sequence of calls on one Client
MaxCalls == 5

\* What gonetgear.DetectNetgearModel can return: an error, or the model of
\* the switch that answers at the host at that moment
Models == { "GS305EP", "GS308EP", "GS316EP" }

DetectNetgearModel ==
    { [err |-> TRUE, model |-> ""] } \cup { [err |-> FALSE, model |-> md] : md \in Models }

\* Mutant: the model is detected at every call
GetModel_AlwaysDetect(c, detected) ==
    LET d == IF c.host # ""
             THEN [c EXCEPT !.detects = @ + 1,
                            !.model = IF detected.err THEN @ ELSE detected.model]
             ELSE c
    IN  [d EXCEPT !.ret = d.model,
                  !.returned = IF @ = NotYet /\ d.model # "Unknown" THEN d.model ELSE @,
                  !.detectsThen = IF d.returned = NotYet THEN d.detects ELSE @]

\* c.GetModel(): the Client after the call, which returns its model; detected
\* is what DetectNetgearModel returns if it is called
GetModel(c, detected) ==
    LET d == IF c.model = "Unknown" /\ c.host # ""
             THEN [c EXCEPT !.detects = @ + 1,
                            !.model = IF detected.err THEN @ ELSE detected.model]
             ELSE c
    IN  [d EXCEPT !.ret = d.model,
                  !.returned = IF @ = NotYet /\ d.model # "Unknown" THEN d.model ELSE @,
                  !.detectsThen = IF d.returned = NotYet THEN d.detects ELSE @]

CallGetModel ==
    /\ client.calls < MaxCalls
    /\ \E detected \in DetectNetgearModel :
          client' = GetModel([client EXCEPT !.calls = @ + 1], detected)
    /\ UNCHANGED << pmVars, tmVars, duoVars, fnVars, vtVars, psVars >>

\* c.Login(ctx, password) and c.LoginAuto(ctx): they differ in the password
\* given to LoginCommand, empty for LoginAuto; after a LoginCommand that
\* succeeded the Client is authenticated and GetModel is called
Login(password) ==
    /\ client.calls < MaxCalls
    /\ \E err \in { NoErr } \cup LoginErrors, detected \in DetectNetgearModel :
          client' = IF err # NoErr
                    THEN [client EXCEPT !.calls = @ + 1]
                    ELSE GetModel([client EXCEPT !.calls = @ + 1,
                                                 !.authenticated = TRUE], detected)
    /\ UNCHANGED << pmVars, tmVars, duoVars, fnVars, vtVars, psVars >>

CallLogin == \E password \in { "clientpw", "wrong" } : Login(password)

LoginAuto == Login("")

ClInit ==
    /\ PmIdle
    /\ TmIdle
    /\ DuoIdle
    /\ FnIdle
    /\ VtIdle
    /\ PsIdle
    /\ \E host \in { "", "sw1" } : client = NewClient(host)

ClNext ==
    \/ CallGetModel
    \/ CallLogin
    \/ LoginAuto

ClSpec == ClInit /\ [][ClNext]_vars

----------------------------------------------------------------------------
(* Part 6: validateToken (main.go:144-196, the same text in the retrying     *)
(* variant).  Two goroutines: the caller, which runs the status command and  *)
(* closes the pipe, and the one started to copy the pipe to io.Discard.  A   *)
(* write on a full pipe and a read on an empty open pipe block; a chunk is   *)
(* what one write of the command puts into the pipe.                         *)

\* Chunks the pipe buffers before a write blocks
PipeCap == 2

\* Most chunks the status command writes
MaxOutput == 3

\* The lines from the two saves to the go statement: the settings are saved
\* and quietened, os.Stdout is replaced by the write end of a new pipe (by nil
\* when os.Pipe fails: its error is dropped), the draining goroutine is started
VtRedirect ==
    /\ vtPc = "call"
    /\ vtEntry' = [Verbose |-> globalOpts.Verbose,
                   OutputFormat |-> globalOpts.OutputFormat,
                   Stdout |-> osStdout,
                   tokenFile |-> tokenFile,
                   loginAttempted |-> loginAttempted]
    /\ vtSaved' = [savedVerbose |-> globalOpts.Verbose,
                   savedFormat |-> globalOpts.OutputFormat,
                   oldStdout |-> osStdout]
    /\ globalOpts' = [Verbose |-> FALSE, OutputFormat |-> MarkdownFormat]
    /\ \E ok \in BOOLEAN :
          /\ pipe' = [ok |-> ok, buf |-> 0, wClosed |-> FALSE]
          /\ osStdout' = IF ok THEN "pipe" ELSE "nil"
    /\ \E n \in 0..MaxOutput : cmd' = [out |-> n, left |-> n, err |-> NotYet]
    /\ drain' = [pc |-> "copy", result |-> NotYet]
    /\ vtPc' = "run"
    /\ UNCHANGED << done, vtRet >>
    /\ UNCHANGED << pmVars, tmVars, duoVars, fnVars, clVars, psVars >>

\* cmd.Run writes one chunk to os.Stdout: it waits while the pipe is full; a
\* write to the nil file fails at once and the chunk is lost
CmdWrite ==
    /\ vtPc = "run"
    /\ cmd.left > 0
    /\ IF osStdout = "pipe"
       THEN /\ pipe.buf < PipeCap
            /\ pipe' = [pipe EXCEPT !.buf = @ + 1]
       ELSE pipe' = pipe
    /\ cmd' = [cmd EXCEPT !.left = @ - 1]
    /\ UNCHANGED << globalOpts, osStdout, vtSaved, vtEntry, vtPc, drain, done, vtRet >>
    /\ UNCHANGED << pmVars, tmVars, duoVars, fnVars, clVars, psVars >>

\* cmd.Run returns nil or an error
CmdReturn ==
    /\ vtPc = "run"
    /\ cmd.left = 0
    /\ \E e \in { NoErr } \cup OpErrors : cmd' = [cmd EXCEPT !.err = e]
    /\ vtPc' = "close"
    /\ UNCHANGED << globalOpts, osStdout, vtSaved, vtEntry, pipe, drain, done, vtRet >>
    /\ UNCHANGED << pmVars, tmVars, duoVars, fnVars, clVars, psVars >>

\* Mutant: the write end is left open
VtClose_Omitted ==
    /\ vtPc = "close"
    /\ vtPc' = "wait"
    /\ UNCHANGED << globalOpts, osStdout, vtSaved, vtEntry, pipe, cmd, drain, done, vtRet >>
    /\ UNCHANGED << pmVars, tmVars, duoVars, fnVars, clVars, psVars >>

\* w.Close()
VtClose ==
    /\ vtPc = "close"
    /\ pipe' = IF pipe.ok THEN [pipe EXCEPT !.wClosed = TRUE] ELSE pipe
    /\ vtPc' = "wait"
    /\ UNCHANGED << globalOpts, osStdout, vtSaved, vtEntry, cmd, drain, done, vtRet >>
    /\ UNCHANGED << pmVars, tmVars, duoVars, fnVars, clVars, psVars >>

\* io.Copy(io.Discard, r) reads some of the chunks in the pipe
DrainRead ==
    /\ drain.pc = "copy"
    /\ pipe.ok
    /\ pipe.buf > 0
    /\ \E k \in 1..pipe.buf : pipe' = [pipe EXCEPT !.buf = @ - k]
    /\ UNCHANGED << globalOpts, osStdout, vtSaved, vtEntry, cmd, vtPc, drain, done, vtRet >>
    /\ UNCHANGED << pmVars, tmVars, duoVars, fnVars, clVars, psVars >>

\* io.Copy returns: at end-of-file, which a read of the empty pipe meets once
\* the write end is closed, or at once with an error when r is the nil file
DrainEnd ==
    /\ drain.pc = "copy"
    /\ IF pipe.ok
       THEN /\ pipe.buf = 0
            /\ pipe.wClosed
            /\ drain' = [pc |-> "send", result |-> "EOF"]
       ELSE drain' = [pc |-> "send", result |-> "invalid argument"]
    /\ UNCHANGED << globalOpts, osStdout, vtSaved, vtEntry, pipe, cmd, vtPc, done, vtRet >>
    /\ UNCHANGED << pmVars, tmVars, duoVars, fnVars, clVars, psVars >>

\* done <- true meets <-done: the channel has no buffer, the send and the
\* receive complete together; the goroutine ends
VtDone ==
    /\ vtPc = "wait"
    /\ drain.pc = "send"
    /\ done' = done + 1
    /\ drain' = [drain EXCEPT !.pc = "exited"]
    /\ vtPc' = "restore"
    /\ UNCHANGED << globalOpts, osStdout, vtSaved, vtEntry, pipe, cmd, vtRet >>
    /\ UNCHANGED << pmVars, tmVars, duoVars, fnVars, clVars, psVars >>

\* Mutant: the output format is left at MarkdownFormat
VtReturn_KeepsFormat ==
    /\ vtPc = "restore"
    /\ osStdout' = vtSaved.oldStdout
    /\ globalOpts' = [globalOpts EXCEPT !.Verbose = vtSaved.savedVerbose]
    /\ vtRet' = IF cmd.err # NoErr /\ IsAuthError(cmd.err) THEN "false" ELSE "true"
    /\ vtPc' = "returned"
    /\ UNCHANGED << vtSaved, vtEntry, pipe, cmd, drain, done >>
    /\ UNCHANGED << pmVars, tmVars, duoVars, fnVars, clVars, psVars >>

\* The rest of validateToken: os.Stdout and the two settings are put back, the
\* error of the command decides the result
VtReturn ==
    /\ vtPc = "restore"
    /\ osStdout' = vtSaved.oldStdout
    /\ globalOpts' = [Verbose |-> vtSaved.savedVerbose,
                      OutputFormat |-> vtSaved.savedFormat]
    /\ vtRet' = IF cmd.err # NoErr /\ IsAuthError(cmd.err) THEN "false" ELSE "true"
    /\ vtPc' = "returned"
    /\ UNCHANGED << vtSaved, vtEntry, pipe, cmd, drain, done >>
    /\ UNCHANGED << pmVars, tmVars, duoVars, fnVars, clVars, psVars >>

\* ensureAuthenticated is about to call validateToken: the token file exists,
\* no login has been made, globalOpts is as main built it
VtInit ==
    /\ variant \in { "single", "retry" }
    /\ statFails = FALSE
    /\ flagPassword = ""
    /\ envPassword \in { "", "envpw" }
    /\ command = "status"
    /\ portArgs = << >>
    /\ tokenFile \in { 1, NotAToken }
    /\ tokenAtStart = tokenFile
    /\ envConsulted = TRUE
    /\ globalPassword = envPassword
    /\ loginAttempted = FALSE
    /\ pc = "validate"
    /\ caller = "none"
    /\ attempt = 0
    /\ loginRet = NotYet
    /\ net = << >>
    /\ sleeps = << >>
    /\ haeOps = 0
    /\ haeLogins = 0
    /\ haeRet = NotYet
    /\ tokenAtHae = 0
    /\ exit = "running"
    /\ TmIdle
    /\ DuoIdle
    /\ FnIdle
    /\ ClIdle
    /\ PsIdle
    /\ \E globalDebug \in BOOLEAN : globalOpts = NewGlobalOptions(globalDebug)
    /\ VtStart("call")

\* The steps of the goroutine that called validateToken
VtCaller ==
    \/ VtRedirect
    \/ CmdWrite
    \/ CmdReturn
    \/ VtClose
    \/ VtReturn

\* The steps of the draining goroutine
VtDrainer ==
    \/ DrainRead
    \/ DrainEnd

VtNext ==
    \/ VtCaller
    \/ VtDrainer
    \/ VtDone

VtSpec == VtInit /\ [][VtNext]_vars

\* The Go scheduler runs every goroutine that can run, and the status command
\* returns (its requests have timeouts)
VtLiveSpec ==
    /\ VtSpec
    /\ WF_vars(VtCaller)
    /\ WF_vars(VtDrainer)
    /\ WF_vars(VtDone)

----------------------------------------------------------------------------
(* Part 7: the mains of poe-status-simple (cmd/poe-status-simple/main.go),   *)
(* of poe-status (cmd/poe-status/main.go) and of the poe-status that reads   *)
(* the environment first (part_002).  Every run of a LoginCommand or of the  *)
(* PoeStatusCommand and every success line printed is one entry of psTrace.  *)

PsPrograms == { "poe-status-simple", "poe-status", "part_002" }

\* Errors a LoginCommand can return to these programs
PsLoginErrors == { "no password provided", "authentication failed",
                   "redirect to login.cgi", "no session token",
                   "connection refused" }

PsHost == "sw1"

\* The line printed before the POE status is requested (poe-status-simple
\* puts a check mark before it)
SuccessLine(program) ==
    IF program = "poe-status-simple"
    THEN "Authenticated with " \o PsHost
    ELSE "Successfully connected to " \o PsHost

\* What main does with the error of the first loginCmd.Run: "fatal" is
\* log.Fatalf, "prompt" asks for the password, "success" goes on
AfterLogin(program, password, err) ==
    IF err = NoErr
    THEN "success"
    ELSE IF program = "poe-status-simple"
         THEN IF \/ Contains(err, "no session")
                 \/ Contains(err, "login")
                 \/ Contains(err, "password")
              THEN "fatal"
              ELSE "success"
         ELSE IF program = "poe-status"
              THEN IF Contains(err, "no password") \/ Contains(err, "authentication")
                   THEN "prompt"
                   ELSE "success"
              ELSE IF /\ password = ""
                      /\ Contains(err, "password") \/ Contains(err, "authentication")
                   THEN "prompt"
                   ELSE "fatal"

PsLogged(ev, arg, err) == Append(psTrace, [ev |-> ev, arg |-> arg, err |-> err])

\* main up to the decision on the first loginCmd.Run
PsLogin ==
    /\ psPc = "login"
    /\ \E err \in { NoErr } \cup PsLoginErrors :
          LET next == AfterLogin(psProgram, psPassword, err) IN
          /\ psTrace' = PsLogged("login", psPassword, err)
          /\ psPc' = IF next = "fatal" THEN "done" ELSE next
          /\ psExit' = IF next = "fatal" THEN "fatal" ELSE psExit
    /\ UNCHANGED << psProgram, psPassword, psPrompt >>
    /\ UNCHANGED << pmVars, tmVars, duoVars, fnVars, clVars, vtVars >>

\* readPassword, then the second loginCmd.Run with the password typed
PsPromptLogin ==
    /\ psPc = "prompt"
    /\ \E typed \in { "read error", "typedpw" } :
          /\ psPrompt' = typed
          /\ IF typed = "read error"
             THEN /\ psTrace' = psTrace
                  /\ psPc' = "done"
                  /\ psExit' = "fatal"
             ELSE \E err \in { NoErr } \cup PsLoginErrors :
                    /\ psTrace' = PsLogged("login", typed, err)
                    /\ psPc' = IF err = NoErr THEN "success" ELSE "done"
                    /\ psExit' = IF err = NoErr THEN psExit ELSE "fatal"
    /\ UNCHANGED << psProgram, psPassword >>
    /\ UNCHANGED << pmVars, tmVars, duoVars, fnVars, clVars, vtVars >>

\* The success line, then cmd.Run of the PoeStatusCommand and the end of main
PsStatus ==
    /\ psPc = "success"
    /\ \E err \in { NoErr } \cup OpErrors :
          /\ psTrace' = Append(PsLogged("print", SuccessLine(psProgram), NoErr),
                               [ev |-> "status", arg |-> PsHost, err |-> err])
          /\ psExit' = IF err = NoErr THEN "ok" ELSE "fatal"
    /\ psPc' = "done"
    /\ UNCHANGED << psProgram, psPassword, psPrompt >>
    /\ UNCHANGED << pmVars, tmVars, duoVars, fnVars, clVars, vtVars >>

\* One of the programs is started with a host; poe-status-simple and part_002
\* have looked for the password in the environment, poe-status gives none
PsInit ==
    /\ PmIdle
    /\ TmIdle
    /\ DuoIdle
    /\ FnIdle
    /\ ClIdle
    /\ VtIdle
    /\ psProgram \in PsPrograms
    /\ psPassword \in IF psProgram = "poe-status" THEN { "" } ELSE { "", "envpw" }
    /\ psPrompt = ""
    /\ psPc = "login"
    /\ psTrace = << >>
    /\ psExit = "running"

PsNext ==
    \/ PsLogin
    \/ PsPromptLogin
    \/ PsStatus

PsSpec == PsInit /\ [][PsNext]_vars

----------------------------------------------------------------------------
(* Properties of poe-management *)

\* The requests of the log sent by `by`, in order
SentBy(by) == SelectSeq(net, LAMBDA m : m.by = by)

Ops == SentBy("retryFunc")
Logins == SentBy("performLogin")

Expired(m) == m.err # NoErr /\ IsAuthError(m.err)

\* C1: one call of handleAuthError runs the operation at most twice and calls
\* performLogin at most once, whatever the operation and the login return, and
\* then returns: the process reaches its end.
C1_AtMostTwoRunsOneLogin ==
    /\ [](haeOps <= 2 /\ Len(Ops) <= 2 /\ haeLogins <= 1)
    /\ <>(pc = "done")

C1_Witness ==
    /\ pc = "done"
    /\ haeOps = 2
    /\ haeLogins = 1
    /\ Expired(Ops[2])

\* The case of C2: a token was cached, the operation was run twice, its first
\* run failed with a session expiry and its second run succeeded
C2_Case ==
    /\ tokenAtStart # 0
    /\ pc = "done"
    /\ Len(Ops) = 2
    /\ Expired(Ops[1])
    /\ Ops[2].err = NoErr

C4_RetryExpiredIsAuthenticationFailed ==
    (/\ pc = "done"
     /\ Len(Ops) = 2
     /\ Expired(Ops[1])
     /\ Expired(Ops[2])) =>
        /\ Contains(haeRet, "authentication failed even after re-login")
        /\ haeRet # Ops[2].err

\* C5: when the first run of the operation returns an error that is not a
\* session expiry, handleAuthError returns that error unchanged, at once:
\* the operation is not retried, the token file is as it was when
\* handleAuthError was entered, and performLogin is not called.
C5_OtherErrorReturnedUnchanged ==
    (/\ Len(Ops) >= 1
     /\ Ops[1].err # NoErr
     /\ ~IsAuthError(Ops[1].err)) =>
        /\ haeRet = Ops[1].err
        /\ pc = "done"
        /\ exit = "fatal"
        /\ Len(Ops) = 1
        /\ haeOps = 1
        /\ haeLogins = 0
        /\ tokenFile = tokenAtHae
        /\ net[Len(net)].by = "retryFunc"

C5_Witness ==
    /\ pc = "done"
    /\ haeRet = "connection refused"
    /\ tokenFile # 0

\* C6: when handleAuthError has returned, the token file does not hold a
\* token with which an operation of this run was answered by a session
\* expiry.
C6_ExpiredTokenDeleted ==
    (pc = "done" /\ haeRet # NotYet) =>
        \A i \in 1..Len(Ops) :
            (Expired(Ops[i]) /\ Ops[i].tok # 0) => tokenFile # Ops[i].tok

\* C7: without a cached token at start-up, the first request is a login, the
\* operation is run at most once and only right after a successful login,
\* nothing is sent after it (no further login, no retry), handleAuthError
\* never calls performLogin, and the error of that run, a session expiry
\* included, ends the process as fatal.
C7_LoginThenOneRun ==
    tokenAtStart = 0 =>
        /\ net # << >> => net[1].by = "performLogin"
        /\ Len(Ops) <= 1
        /\ haeOps <= 1
        /\ haeLogins = 0
        /\ \A i \in 1..Len(net) :
              net[i].by = "retryFunc" =>
                  /\ i = Len(net)
                  /\ i > 1
                  /\ net[i - 1].by = "performLogin"
                  /\ net[i - 1].err = NoErr
                  /\ pc = "done"
                  /\ haeRet =
                        IF Expired(net[i])
                        THEN "authentication failed even after re-login: " \o net[i].err
                        ELSE net[i].err
                  /\ exit = IF net[i].err = NoErr THEN "ok" ELSE "fatal"

C7_Witness ==
    /\ tokenAtStart = 0
    /\ pc = "done"
    /\ Len(Ops) = 1
    /\ Expired(Ops[1])

\* C8: a login attempt the switch rejected is never followed by another
\* login attempt.
C8_RejectedLoginNotRetried ==
    \A i \in 1..(Len(net) - 1) :
        (net[i].by = "performLogin" /\ net[i].err = ErrRejected) =>
            net[i + 1].by # "performLogin"

\* C9: in the retry variant, performLogin with a non-empty password makes at
\* most 4 attempts, every attempt but the last one made has failed, the waits
\* are 200, 500 and 1000 ms after the 1st, 2nd and 3rd failed attempt and
\* none after the 4th, and it returns an error only after 4 failed attempts.
C9_FourAttemptsThreeWaits ==
    (variant = "retry" /\ globalPassword # "") =>
        LET failed == Len(SelectSeq(Logins, LAMBDA m : m.err # NoErr)) IN
        /\ Len(Logins) <= 4
        /\ attempt <= 4
        /\ \A i \in 1..(Len(Logins) - 1) : Logins[i].err # NoErr
        /\ Len(sleeps) = IF failed = 4 THEN 3 ELSE failed
        /\ sleeps = SubSeq(<< 200, 500, 1000 >>, 1, Len(sleeps))
        /\ loginRet = NoErr => (Logins # << >> /\ Logins[Len(Logins)].err = NoErr)
        /\ loginRet \notin { NotYet, NoErr } => (failed = 4 /\ Len(Logins) = 4)
        /\ (pc = "attempt" /\ failed < 4) => loginRet = NotYet
        /\ failed = 4 => loginRet = "login failed after 4 attempts: " \o Logins[4].err

C9_Witness ==
    /\ variant = "retry"
    /\ sleeps = << 200, 500, 1000 >>
    /\ Len(Logins) = 4
    /\ loginRet \notin { NotYet, NoErr }

----------------------------------------------------------------------------
(* Properties of the token manager *)

\* The last call was GetToken(h), and the call before it SetToken(h, t) that
\* returned no error
GetAfterSet ==
    /\ tmLast.op = "Get"
    /\ tmLast.afterSet
    /\ tmLast.setHost = tmLast.host

\* C10 as stated: for every host and every token t, GetToken(host) right
\* after a SetToken(host, t) that succeeded returns t and no error.
C10_GetReturnsWhatWasSet ==
    GetAfterSet => (tmLast.ok /\ tmLast.tok = tmLast.setTok)

\* C10 amended: for every host and every token t that is valid UTF-8,
\* GetToken(host) right after a SetToken(host, t) that succeeded returns t
\* and no error; for a t that is not valid UTF-8 it returns no error
\* either, and a valid UTF-8 string other than t.
C10_GetReturnsValidUTF8Set ==
    GetAfterSet =>
        /\ tmLast.ok
        /\ ValidUTF8(tmLast.setTok) => tmLast.tok = tmLast.setTok
        /\ ~ValidUTF8(tmLast.setTok) =>
              (tmLast.tok # tmLast.setTok /\ ValidUTF8(tmLast.tok))

C10_Witness ==
    /\ GetAfterSet
    /\ tmLast.ok
    /\ tmLast.tok = << 195, 169 >>
    /\ tmLast.setTok = << 195, 169 >>
    /\ tmLast.host = << "x", "/", "s", "1" >>

\* What the calls so far have done to the file of the host of the last call
LastEntry == tmStored[getTokenFile(tmLast.host)]

C12_GetAfterRemoveNotFound ==
    /\ \A f \in FileNames : tmStored[f].state = "removed" => fs[f] = NoFile
    /\ (tmLast.op = "Get" /\ LastEntry.state = "removed") =>
          (~tmLast.ok /\ tmLast.tok = << >>)

C12_Witness ==
    /\ tmLast.op = "Get"
    /\ LastEntry.state = "removed"
    /\ LastEntry.by = tmLast.host
    /\ LastEntry.replaced
    /\ ~tmLast.ok

\* C13: a GetToken that runs while a SetToken replaces an existing entry of
\* the same host returns, with no error, what GetToken returned before the
\* SetToken or what it returns after it.
C13_ConcurrentGetSeesOldOrNew ==
    tmRead.during => (tmRead.ok /\ tmRead.tok \in { tmRead.old, tmRead.new })

----------------------------------------------------------------------------
(* Properties of two concurrent runs *)

\* C14: the two runs are never both inside a login, and as long as a run
\* that has logged in has not finished its operation, the token file holds
\* the token that run obtained.
C14_RunsSerialized ==
    /\ ~(\A p \in Procs : duoRun[p].pc = "attempt")
    /\ \A p \in Procs :
          (duoRun[p].got # 0 /\ duoRun[p].pc \in { "op", "retry" }) =>
              duoFile = duoRun[p].got

\* C15: a removeToken that finds no token file leaves the cache as it is (no
\* file), and the process goes on to performLogin, still running.
C15_RemoveAbsentGoesOnToLogin ==
    [][\A p \in Procs :
          (duoRun'[p].removes = duoRun[p].removes + 1 /\ duoFile = 0) =>
              /\ duoFile' = 0
              /\ duoRun'[p].pc = "login"
              /\ duoRun'[p].exit = "running"
              /\ duoRun'[p].rmAbsent]_vars

C15_Witness ==
    \E p \in Procs :
        /\ duoRun[p].rmAbsent
        /\ duoRun[p].caller = "handle"
        /\ duoRun[p].got # 0

----------------------------------------------------------------------------
(* Properties of the pure functions *)

\* The value of a string of hexadecimal digits, -1 when a character is not a
\* lowercase hexadecimal digit
RECURSIVE HexValue(_)
HexValue(str) ==
    IF Len(str) = 0 THEN 0
    ELSE LET d == Index("0123456789abcdef", SubSeq(str, Len(str), Len(str)))
             high == HexValue(SubSeq(str, 1, Len(str) - 1))
         IN  IF d = 0 \/ high = -1 THEN -1 ELSE 16 * high + d - 1

\* Adler-32 by its definition: A is 1 plus the sum of the bytes, B the sum of
\* the values A takes after each byte, both modulo 65521; the checksum is
\* B * 65536 + A, here << B, A >>
Adler32(bytes) ==
    LET n == Len(bytes)
        a == [i \in 1..n |-> (1 + SumOf(bytes, 1, i)) % 65521]
    IN  << SumOf(a, 1, n) % 65521, IF n = 0 THEN 1 ELSE a[n] >>

\* C16: the result of getTokenPath(dir, host) is dir, or the system temp
\* directory when dir is empty, followed by "/.config/ntgrrc/token-" and by
\* exactly 8 lowercase hexadecimal digits whose value is the Adler-32
\* checksum of host; it depends on nothing else, and an empty dir gives the
\* result of the temp directory.
C16_TokenPathIsDirAndEightHexDigits ==
    fnCall.fn = "getTokenPath" =>
        LET dir == IF fnCall.configDir = "" THEN TempDir(fnCall.tmpdir) ELSE fnCall.configDir
            prefix == dir \o "/.config/ntgrrc/token-"
            out == fnCall.out
            hash == SubSeq(out, Len(prefix) + 1, Len(out))
        IN  /\ Len(out) = Len(prefix) + 8
            /\ SubSeq(out, 1, Len(prefix)) = prefix
            /\ << HexValue(SubSeq(hash, 1, 4)), HexValue(SubSeq(hash, 5, 8)) >>
                  = Adler32(fnCall.host)
            /\ out = getTokenPath(dir, fnCall.host, fnCall.tmpdir)
            /\ \A t \in TmpDirs :
                  fnCall.configDir # "" => out = getTokenPath(fnCall.configDir, fnCall.host, t)

C16_Witness ==
    /\ fnCall.fn = "getTokenPath"
    /\ fnCall.host = << >>
    /\ fnCall.configDir = ""
    /\ fnCall.tmpdir = ""
    /\ fnCall.out = "/tmp/.config/ntgrrc/token-00000001"

\* C17: for every hostname and every directory given, the token path of the
\* manual-invalidation snippet is the path getTokenPath returns.
C17_ManualPathIsTokenPath ==
    (fnCall.fn = "getTokenPath" /\ fnCall.configDir # "") =>
        ManualTokenPath(fnCall.configDir, fnCall.host) = fnCall.out

\* C19: when NETGEAR_SWITCHES has an entry for the address and
\* NETGEAR_PASSWORD_<address> is set, with different passwords,
\* getPasswordFromEnv returns the password of NETGEAR_SWITCHES.
C19_SwitchesBeforeHostVariable ==
    fnCall.fn = "getPasswordFromEnv" =>
        LET entry == SwitchesEntry(Split(fnCall.env["NETGEAR_SWITCHES"], ";"),
                                   fnCall.address)
            hostVar == fnCall.env["NETGEAR_PASSWORD_" \o fnCall.address]
        IN  (entry.found /\ entry.pass # "" /\ hostVar # "" /\ hostVar # entry.pass) =>
                fnCall.out = entry.pass

\* C21: for an address with dots, when NETGEAR_PASSWORD_ followed by the
\* address with its dots replaced by underscores is the one variable that is
\* set, getPasswordFromEnv returns the value of that variable.
C21_DotsReadAsUnderscores ==
    fnCall.fn = "getPasswordFromEnv" =>
        LET readmeVar == "NETGEAR_PASSWORD_" \o Underscored(fnCall.address) IN
        (/\ readmeVar \in ReadmeVars
         /\ fnCall.env[readmeVar] # ""
         /\ \A n \in EnvNames \ { readmeVar } : fnCall.env[n] = "") =>
            fnCall.out = fnCall.env[readmeVar]

\* t is str without the white space at its two ends
IsTrimOf(t, str) ==
    \E i \in 1..(Len(str) + 1), j \in 0..Len(str) :
        /\ i <= j + 1
        /\ Len(t) = j - i + 1
        /\ \A k \in 1..Len(t) : SubSeq(t, k, k) = SubSeq(str, i + k - 1, i + k - 1)
        /\ \A k \in (1..(i - 1)) \cup ((j + 1)..Len(str)) : SubSeq(str, k, k) \in White
        /\ Len(t) > 0 => (SubSeq(t, 1, 1) \notin White /\ SubSeq(t, Len(t), Len(t)) \notin White)

\* The entry has a ':' and the text before its first ':' is the host, white
\* space at the ends apart
EntryOf(entry, host) ==
    /\ Index(entry, ":") # 0
    /\ IsTrimOf(host, SubSeq(entry, 1, Index(entry, ":") - 1))

RECURSIVE Flatten(_)
Flatten(seqs) == IF seqs = << >> THEN << >> ELSE Head(seqs) \o Flatten(Tail(seqs))

PortTokens(args) ==
    LET pieces == Flatten([i \in 1..Len(args) |-> Split(args[i], ",")])
    IN  [i \in 1..Len(pieces) |-> TrimSpace(pieces[i])]

\* The two ends of a token with a '-': the texts before and after the first one
RangeStart(tok) == Atoi(TrimSpace(SubSeq(tok, 1, Index(tok, "-") - 1)))
RangeEnd(tok) == Atoi(TrimSpace(SubSeq(tok, Index(tok, "-") + 1, Len(tok))))

IsNumber(tok) == Index(tok, "-") = 0 /\ Atoi(tok).ok
IsRange(tok) ==
    /\ Index(tok, "-") # 0
    /\ RangeStart(tok).ok
    /\ RangeEnd(tok).ok
    /\ RangeStart(tok).n <= RangeEnd(tok).n

\* The ports a token names: n, or a, a+1, ..., b
Named(tok) ==
    IF IsNumber(tok) THEN << Atoi(tok).n >>
    ELSE [i \in 1..(RangeEnd(tok).n - RangeStart(tok).n + 1) |-> RangeStart(tok).n + i - 1]

\* seq without the elements that occurred before in it
FirstOccurrences(seq) ==
    LET first == { i \in 1..Len(seq) : \A j \in 1..(i - 1) : seq[j] # seq[i] }
        nth(k) == CHOOSE i \in first : Cardinality({ j \in first : j < i }) = k - 1
    IN  [k \in 1..Cardinality(first) |-> seq[nth(k)]]

\* C23: when every element of the arguments is a number or a range a-b with
\* a <= b, parsePorts returns the ports they name, in the order of the
\* arguments and ascending within a range, each at its first occurrence.
C23_PortsInOrderOfFirstOccurrence ==
    fnCall.fn = "parsePorts" =>
        LET toks == PortTokens(fnCall.args) IN
        (\A i \in 1..Len(toks) : IsNumber(toks[i]) \/ IsRange(toks[i])) =>
            /\ ~fnCall.out.fatal
            /\ fnCall.out.ports =
                  FirstOccurrences(Flatten([i \in 1..Len(toks) |-> Named(toks[i])]))

C23_Witness ==
    /\ fnCall.fn = "parsePorts"
    /\ fnCall.args = << "1", "3", "5-8" >>
    /\ fnCall.out = [fatal |-> FALSE, ports |-> << 1, 3, 5, 6, 7, 8 >>]

\* C28: the list parsePorts returns never has the same port twice.
C28_NoPortTwice ==
    fnCall.fn = "parsePorts" =>
        \A i, j \in 1..Len(fnCall.out.ports) :
            fnCall.out.ports[i] = fnCall.out.ports[j] => i = j

C28_Witness ==
    /\ fnCall.fn = "parsePorts"
    /\ fnCall.args = << "1-3,2-5", "3" >>
    /\ fnCall.out.ports = << 1, 2, 3, 4, 5 >>

\* C29: every port parsePorts returns is >= 0; an element that begins with
\* '-', is empty, is a range whose start is greater than its end, or is
\* neither a number nor a range of two numbers ends the process.
C29_PortsNonNegativeOrAbort ==
    fnCall.fn = "parsePorts" =>
        LET toks == PortTokens(fnCall.args) IN
        /\ \A i \in 1..Len(fnCall.out.ports) : fnCall.out.ports[i] >= 0
        /\ (\E i \in 1..Len(toks) :
               \/ Len(toks[i]) = 0
               \/ SubSeq(toks[i], 1, 1) = "-"
               \/ /\ Index(toks[i], "-") # 0
                  /\ RangeStart(toks[i]).ok /\ RangeEnd(toks[i]).ok
                  /\ RangeStart(toks[i]).n > RangeEnd(toks[i]).n
               \/ /\ Index(toks[i], "-") = 0
                  /\ ~Atoi(toks[i]).ok
               \/ /\ Index(toks[i], "-") # 0
                  /\ ~(RangeStart(toks[i]).ok /\ RangeEnd(toks[i]).ok))
              => fnCall.out.fatal

C29_Witness ==
    /\ fnCall.fn = "parsePorts"
    /\ fnCall.args = << "3", "-5" >>
    /\ fnCall.out.fatal

----------------------------------------------------------------------------
(* Properties of poe-management: the source of the password *)

\* C18: a non-empty --password value is the password of every login of the
\* run, and getPasswordFromEnv is called only when the flag value is empty.
C18_FlagPasswordIsUsed ==
    /\ envConsulted => flagPassword = ""
    /\ flagPassword # "" =>
          /\ pc # "main" => globalPassword = flagPassword
          /\ \A i \in 1..Len(Logins) : Logins[i].pw = flagPassword

C18_Witness ==
    /\ flagPassword = "flagpw"
    /\ envPassword = "envpw"
    /\ Logins # << >>
    /\ Logins[1].pw = "flagpw"
    /\ ~envConsulted

\* C20: when a password is available, from the flag or from the environment,
\* no operation is sent with the token that was cached before the run: the
\* process logs in first.
C20_PasswordBeforeCachedToken ==
    (globalPassword # "" /\ tokenAtStart # 0) =>
        \A i \in 1..Len(Ops) : Ops[i].tok # tokenAtStart

----------------------------------------------------------------------------
(* Properties of poe-management: the cached token, the port arguments *)

\* C24: ensureAuthenticated goes on to validate the cached token exactly
\* when os.Stat finds the token file, whatever is in it; and a step of the
\* process deletes the token file only by sending a request, a validation or
\* an operation, that returns a session-expiry error.
C24_TokenDeletedOnlyAfterExpiry ==
    [][/\ pc = "ensure" => (pc' = "validate" <=> (tokenFile # 0 /\ ~statFails))
       /\ (tokenFile # 0 /\ tokenFile' = 0) =>
             /\ Len(net') = Len(net) + 1
             /\ net'[Len(net')].by \in { "validateToken", "retryFunc" }
             /\ net'[Len(net')].err # NoErr
             /\ IsAuthError(net'[Len(net')].err)]_vars

C24_Witness ==
    /\ tokenAtStart = NotAToken
    /\ tokenFile = 0
    /\ Len(net) = 1
    /\ net[1].by = "validateToken"
    /\ net[1].tok = NotAToken
    /\ IsAuthError(net[1].err)

\* C25: when os.Stat of the token path fails, because the file is absent or
\* for another reason, ensureAuthenticated goes straight on to performLogin,
\* with no request and no change of the token file; and in a run in which it
\* fails though the file exists, no validation request is ever sent and the
\* file is never removed.
C25_StatFailureFallsBackToLogin ==
    [][/\ (pc = "ensure" /\ (tokenFile = 0 \/ statFails)) =>
             /\ pc' = "login"
             /\ caller' = "ensure"
             /\ exit' = "running"
             /\ net' = net
             /\ tokenFile' = tokenFile
       /\ statFails =>
             /\ tokenFile' # 0
             /\ \A i \in 1..Len(net') : net'[i].by # "validateToken"]_vars

C25_Witness ==
    /\ statFails
    /\ exit = "ok"
    /\ SentBy("validateToken") = << >>
    /\ net[1].by = "performLogin"
    /\ net[Len(net)].by = "retryFunc"

\* C30: for enable, disable and cycle, when parsePorts ends the process or
\* returns no port, no operation is ever sent and the process ends in
\* failure; it ends after the authentication: a validation or a login has
\* been sent by then, unless there was neither a token nor a password.
C30_NoPortCommandBeforeParsing ==
    (command \in PortCommands
        /\ (RunPorts[portArgs].fatal \/ RunPorts[portArgs].ports = << >>)) =>
        /\ Ops = << >>
        /\ pc = "done" =>
              /\ exit = "fatal"
              /\ (tokenAtStart # 0 \/ globalPassword # "") => net # << >>

C30_Witness ==
    /\ command = "enable"
    /\ portArgs = << "3", "x" >>
    /\ exit = "fatal"
    /\ Logins # << >>
    /\ Logins[Len(Logins)].err = NoErr
    /\ Ops = << >>

----------------------------------------------------------------------------
(* Properties of the Client *)

\* C26: the model of a Client changes only from "Unknown", to a detected
\* model; and once a GetModel has returned a detected model, no call of
\* GetModel, Login or LoginAuto detects again or changes the model, and every
\* GetModel returns that model.
C26_ModelDetectedOnce ==
    [][/\ client'.model # client.model =>
             (client.model = "Unknown" /\ client'.model \in Models)
       /\ client.returned # NotYet =>
             /\ client'.returned = client.returned
             /\ client'.model = client.returned
             /\ client'.detects = client.detectsThen
             /\ client'.ret = client.returned]_vars

C26_Witness ==
    /\ client.calls = 5
    /\ client.detects = 2
    /\ client.detectsThen = 2
    /\ client.returned = "GS316EP"
    /\ client.ret = "GS316EP"
    /\ client.authenticated

----------------------------------------------------------------------------
(* Properties of poe-management: loginAttempted, the failures of performLogin *)

\* The login requests that succeeded
GoodLogins == SelectSeq(Logins, LAMBDA m : m.err = NoErr)

\* C31: loginAttempted is false when the process starts; a step makes it
\* true only by sending a login request that succeeds, and no step makes it
\* false again; once it is true the process is never in performLogin, and a
\* run has at most one login that succeeded.
C31_LoginAttemptedOnce ==
    /\ ~loginAttempted
    /\ [][/\ loginAttempted => loginAttempted'
          /\ (~loginAttempted /\ loginAttempted') =>
                /\ Len(net') = Len(net) + 1
                /\ net'[Len(net')].by = "performLogin"
                /\ net'[Len(net')].err = NoErr
          /\ loginAttempted' => pc' \notin { "login", "attempt" }
          /\ Len(SelectSeq(net', LAMBDA m : m.by = "performLogin" /\ m.err = NoErr)) <= 1]_vars

C31_Witness ==
    /\ loginAttempted
    /\ Len(GoodLogins) = 1
    /\ Len(Logins) = 4
    /\ pc = "done"
    /\ exit = "fatal"
    /\ Len(Ops) = 2
    /\ Expired(Ops[2])

\* No password from the flag nor from the environment
NoPassword == flagPassword = "" /\ envPassword = ""

\* C32: without a password (empty flag, empty environment) a call of
\* performLogin returns "no password available for authentication" in one
\* step that sends nothing, waits for nothing and leaves loginAttempted
\* false; in both variants such a run never sends a login request, never
\* starts an attempt and never sleeps.
C32_NoPasswordNoLogin ==
    [][NoPassword =>
          /\ pc = "login" =>
                /\ loginRet' = "no password available for authentication"
                /\ pc' = "done"
                /\ net' = net
                /\ sleeps' = sleeps
                /\ attempt' = attempt
          /\ Logins = << >> /\ SentBy("performLogin")' = << >>
          /\ sleeps' = << >>
          /\ attempt' = 0
          /\ pc' # "attempt"
          /\ ~loginAttempted']_vars

C32_Witness ==
    /\ NoPassword
    /\ variant = "retry"
    /\ loginRet = "no password available for authentication"
    /\ caller = "handle"
    /\ haeRet = "re-authentication failed: no password available for authentication"
    /\ Len(net) = 2
    /\ sleeps = << >>
    /\ ~loginAttempted

\* The re-login of handleAuthError has returned an error
ReloginFailed == caller = "handle" /\ loginRet \notin { NotYet, NoErr }

\* C33: when the performLogin called by handleAuthError returns an error,
\* handleAuthError returns "re-authentication failed: " followed by that
\* error, the operation has been run once and is not run again, and the
\* token file deleted before the login is still absent when the process ends.
C33_FailedReloginEndsRun ==
    ReloginFailed =>
        /\ haeRet = "re-authentication failed: " \o loginRet
        /\ pc = "done"
        /\ exit = "fatal"
        /\ haeOps = 1
        /\ Len(Ops) = 1
        /\ Expired(Ops[1])
        /\ net[Len(net)].by # "retryFunc" \/ Len(Logins) = 0
        /\ tokenAtHae # 0
        /\ tokenFile = 0
        /\ ~loginAttempted

C33_Witness ==
    /\ ReloginFailed
    /\ variant = "retry"
    /\ Len(Logins) = 4
    /\ tokenAtHae = 1
    /\ tokenFile = 0
    /\ haeRet = "re-authentication failed: " \o loginRet
    /\ haeOps = 1

----------------------------------------------------------------------------
(* Properties of validateToken *)

\* An error whose text holds one of the three session-expiry phrases
SaysExpired(e) ==
    \E phrase \in { "no content", "login", "no session" } :
        \E i \in 1..Len(e) :
            i + Len(phrase) - 1 <= Len(e) /\ SubSeq(e, i, i + Len(phrase) - 1) = phrase

\* C34: validateToken returns false (the token is removed and performLogin
\* is entered) exactly when its status request returned an error whose text
\* holds "no content", "login" or "no session"; on success and on any other
\* error it returns true: the token file is kept and the command is
\* dispatched without a login. handleAuthError starts its re-login on the
\* same errors.
C34_ValidationFailsOnExpiryOnly ==
    [][LET e == net'[Len(net')].err
       IN  /\ pc = "validate" =>
                 /\ Len(net') = Len(net) + 1
                 /\ net'[Len(net')].by = "validateToken"
                 /\ IF SaysExpired(e)
                    THEN /\ pc' = "login"
                         /\ tokenFile' = 0
                    ELSE /\ pc' = "dispatch"
                         /\ tokenFile' = tokenFile
                         /\ SentBy("performLogin")' = << >>
                         /\ ~loginAttempted'
           /\ (pc = "op" /\ ~loginAttempted) =>
                 (pc' = "login" <=> SaysExpired(e))]_vars

C34_Witness ==
    /\ Len(net) = 2
    /\ net[1].by = "validateToken"
    /\ net[1].err = "connection refused"
    /\ net[2].by = "retryFunc"
    /\ net[2].err = "no session token"
    /\ net[2].tok = tokenAtStart
    /\ tokenAtStart = 1
    /\ pc = "login"

\* C35: when validateToken has returned, true or false, globalOpts.Verbose,
\* globalOpts.OutputFormat and os.Stdout are what they were when it was
\* called; from its call on, the token file and loginAttempted are what they
\* were at the call.
C35_SettingsRestored ==
    /\ vtPc = "returned" =>
          /\ vtRet \in { "true", "false" }
          /\ globalOpts.Verbose = vtEntry.Verbose
          /\ globalOpts.OutputFormat = vtEntry.OutputFormat
          /\ osStdout = vtEntry.Stdout
    /\ vtPc \notin { "idle", "call" } =>
          /\ tokenFile = vtEntry.tokenFile
          /\ loginAttempted = vtEntry.loginAttempted

C35_Witness ==
    /\ vtPc = "returned"
    /\ vtRet = "false"
    /\ vtEntry.Verbose
    /\ globalOpts = NewGlobalOptions(TRUE)
    /\ osStdout = "terminal"
    /\ pipe.ok
    /\ cmd.out > 0
    /\ tokenFile = 1

\* C36: the draining goroutine leaves io.Copy at end-of-file only when the
\* write end is closed and the pipe empty; done carries at most one value;
\* when validateToken has returned the goroutine has ended and done carried
\* exactly one value; and a validateToken whose command has been started
\* returns, whatever the size of the output, more than the pipe holds included.
C36_NoDeadlockOnPipe ==
    /\ [](/\ done <= 1
          /\ drain.result = "EOF" => pipe.ok /\ pipe.wClosed /\ pipe.buf = 0
          /\ (drain.pc \in { "send", "exited" } /\ pipe.ok) => drain.result = "EOF"
          /\ done = 1 <=> drain.pc = "exited"
          /\ vtPc = "returned" => done = 1)
    /\ (vtPc = "run") ~> (vtPc = "returned" /\ drain.pc = "exited")

C36_Witness ==
    /\ vtPc = "returned"
    /\ pipe.ok
    /\ cmd.out > PipeCap
    /\ drain = [pc |-> "exited", result |-> "EOF"]
    /\ done = 1

----------------------------------------------------------------------------
(* Properties of poe-status-simple and poe-status *)

\* C37: the success line is printed and the POE status requested only after
\* a run of the LoginCommand that returned no error.
C37_SuccessLineOnlyAfterLogin ==
    \A i \in 1..Len(psTrace) :
        psTrace[i].ev \in { "print", "status" } =>
            \E j \in 1..(i - 1) :
                psTrace[j].ev = "login" /\ psTrace[j].err = NoErr

----------------------------------------------------------------------------
(* Properties of the token manager: the entries of different hosts *)

\* What GetToken(host) returns when the files are `files`
TokenOf(files, host) ==
    LET data == files[getTokenFile(host)]
        doc == IF data = NoFile THEN [ok |-> FALSE, token |-> << >>] ELSE Unmarshal(data)
    IN  [ok |-> doc.ok, tok |-> IF doc.ok THEN doc.token ELSE << >>]

\* C38: a SetToken(h1, t) or a RemoveToken(h1) leaves what GetToken(h2)
\* returns as it was, for every host h2 other than h1.
C38_OtherHostsUntouched ==
    [][tmLast'.op \in { "Set", "Remove" } =>
          \A h2 \in Hosts \ { tmLast'.host } :
              TokenOf(fs', h2) = TokenOf(fs, h2)]_vars

====
